---- MODULE Spec2Model ----
(***************************************************************************)
(* Realtime session and fan-out engine of the chat backend:                *)
(*   - sockets/chatSocket.js : handshake authentication, the connection    *)
(*     handler (presence, room joins), the disconnect handler and the      *)
(*     message:send handler, each modelled one suspension point (await)    *)
(*     at a time;                                                          *)
(*   - controllers/messageController.js : the HTTP handlers sendMessage,   *)
(*     editMessage, deleteMessage and forwardMessage, each modelled as one *)
(*     request served from its first line to its response.                 *)
(* Time is in milliseconds, as Date.now() is.                              *)
(***************************************************************************)
EXTENDS Integers, Sequences, FiniteSets, TLC

VARIABLES
    clock,      \* Date.now()
    ticks,      \* how many times the clock has advanced
    users,      \* users collection, presence fields: [isOnline, lastSeen]
    socks,      \* one record per socket (connection attempt)
    rooms,      \* adapter room membership: set of <<socket, room>>
    trace,      \* per socket: the side effects its handlers performed, in order
    msgs,       \* messages collection: id -> document
    nextId,     \* next message _id
    sends,      \* message:send handler invocations, in arrival order
    budget,     \* message:send events the clients may still emit
    notifs,     \* users collection, notifications array: user -> sequence
    cache,      \* redis, key notifications:<user>: user -> entry
    last,       \* the HTTP request served last: request, response, emissions
    reqs        \* HTTP requests the clients may still send

vars == <<clock, ticks, users, socks, rooms, trace, msgs, nextId, sends, budget,
          notifs, cache, last, reqs>>

connVars == <<users, socks, rooms, trace>>
msgVars == <<msgs, nextId>>
sendVars == <<sends, budget, notifs, cache>>
httpVars == <<last, reqs>>

(***************************************************************************)
(* Bounds of the model                                                     *)
(***************************************************************************)
NumSocks == 2
MaxTicks == 2
MaxMsgs == 4
MaxSends == 2
MaxReqs == 2
MaxNotifOps == 4

\* Acknowledgment requests (markAsDelivered, markAsSeen) received in a behaviour
MaxAcks == 2

\* Edit and delete requests in flight together
MaxRace == 2

\* Notification service calls in flight together
MaxCalls == 3

\* Room events (join:admin, group:join, group:leave) received in a behaviour
MaxRoomOps == 2

(***************************************************************************)
(* The fixed data the handlers read: users, groups, tokens                 *)
(***************************************************************************)
None == "none"

UserIds == {"u1", "u2", "u3"}

\* A token subject that resolves to no user record (account deleted after issuance).
Ghost == "ghost"

Subjects == UserIds \cup {Ghost}

Role(u) == CASE u = "u1" -> "member"
             [] u = "u2" -> "manager"
             [] OTHER    -> "admin"

\* user.groupId: the admin u3 belongs to no group
GroupOf(u) == CASE u = "u1" -> "g1"
                [] u = "u2" -> "g1"
                [] OTHER    -> None

Groups == {"g1", "g2"}

\* An id that is well-formed and names no group document.
NoSuchGroup == "gx"

GroupIds == Groups \cup {NoSuchGroup}

Region(g) == IF g = "g1" THEN "r1" ELSE "r2"

\* group.users and group.managers, arrays
GroupUsers(g) == IF g = "g1" THEN <<"u1">> ELSE <<"u3", "u1">>

GroupManagers(g) == IF g = "g1" THEN <<"u2">> ELSE <<>>

SockIds == 1..NumSocks

NoToken == [present |-> FALSE, sub |-> None, good |-> FALSE]

Tokens == {NoToken} \cup
          {[present |-> TRUE, sub |-> "u1", good |-> FALSE]} \cup
          {[present |-> TRUE, sub |-> u, good |-> TRUE] : u \in Subjects}

UserRoom(u) == <<"user", u>>
GroupRoom(g) == <<"group", g>>
AdminRoom == <<"admin", "room">>

\* Destinations of an emission
ToRoom(r) == <<"to", r>>
Self == <<"self", "socket">>
All == <<"all", "sockets">>

(***************************************************************************)
(* Side effects, as recorded in a socket's trace                           *)
(***************************************************************************)
WriteEff(online, t) ==
    [k |-> "write", ev |-> "presence", dest |-> <<"db", "users">>,
     online |-> online, to |-> {}, at |-> t]

JoinEff(room) ==
    [k |-> "join", ev |-> "join", dest |-> room, online |-> TRUE, to |-> {}, at |-> 0]

EmitEff(ev, dest, online, to) ==
    [k |-> "emit", ev |-> ev, dest |-> dest, online |-> online, to |-> to, at |-> 0]

RoomsOf(s) == {r \in {UserRoom(u) : u \in UserIds} \cup {GroupRoom(g) : g \in GroupIds}
                      \cup {AdminRoom} : <<s, r>> \in rooms}

\* socket.to(room).emit: the open sockets of the room, except the emitting one
RoomExcept(room, s) == {x \in SockIds : <<x, room>> \in rooms /\ socks[x].open /\ x # s}

\* io.to(room).emit: the open sockets of the room
RoomAll(room) == {x \in SockIds : <<x, room>> \in rooms /\ socks[x].open}

\* socket.emit: the socket itself; a packet for a closed socket is dropped
SelfOnly(s) == IF socks[s].open THEN {s} ELSE {}

\* io.emit: every socket connected to the namespace
Everyone == {x \in SockIds : socks[x].open}

(***************************************************************************)
(* chatSocket.js: io.use authentication middleware                         *)
(***************************************************************************)
\* verify(token) returns the payload; a bad token makes it throw
Verify(tok) == tok.good

MwAcceptsNoVerify(tok) == tok.present

\* next() without an error: the token is there and verifies
MwAccepts(tok) == tok.present /\ Verify(tok)

NewSock == [st |-> "new", tok |-> NoToken, uid |-> None, open |-> FALSE,
            disc |-> "none", err |-> ""]

\* A client connects with a token: the middleware runs, and when it lets the
\* socket through the connection handler starts and suspends on User.findById.
Connect(s, tok) ==
    /\ socks[s].st = "new"
    /\ IF MwAccepts(tok)
       THEN socks' = [socks EXCEPT ![s] = [@ EXCEPT !.st = "lookup", !.tok = tok,
                                           !.uid = tok.sub, !.open = TRUE]]
       ELSE socks' = [socks EXCEPT ![s] = [@ EXCEPT !.st = "rejected", !.tok = tok,
                                           !.err = "unauth"]]
    /\ UNCHANGED <<clock, ticks, users, rooms, trace, msgVars, sendVars, httpVars>>

\* User.findById resolves: no user, socket.disconnect(); else the handler
\* suspends on the online-status write.
ConnLookup(s) ==
    /\ socks[s].st = "lookup"
    /\ IF socks[s].uid \in UserIds
       THEN /\ socks' = [socks EXCEPT ![s] = [@ EXCEPT !.st = "update"]]
            /\ rooms' = rooms
       ELSE /\ socks' = [socks EXCEPT ![s] = [@ EXCEPT !.st = "dropped", !.open = FALSE]]
            /\ rooms' = {p \in rooms : p[1] # s}
    /\ UNCHANGED <<clock, ticks, users, trace, msgVars, sendVars, httpVars>>

\* socket.join calls of the connection handler
ConnectJoins(u) ==
    <<JoinEff(UserRoom(u))>>
    \o (IF GroupOf(u) # None THEN <<JoinEff(GroupRoom(GroupOf(u)))>> ELSE <<>>)
    \o (IF Role(u) = "admin" THEN <<JoinEff(AdminRoom)>> ELSE <<>>)

ConnectEmitsGlobalFirst(s, u) ==
    <<EmitEff("user:status:changed", All, TRUE, Everyone)>>
    \o (IF GroupOf(u) # None
        THEN <<EmitEff("user:online", ToRoom(GroupRoom(GroupOf(u))), TRUE,
                       RoomExcept(GroupRoom(GroupOf(u)), s))>>
        ELSE <<>>)
    \o <<EmitEff("user:online", ToRoom(AdminRoom), TRUE, RoomExcept(AdminRoom, s)),
         EmitEff("user:online", Self, TRUE, SelfOnly(s))>>

\* the presence emissions of the connection handler
ConnectEmits(s, u) ==
    (IF GroupOf(u) # None
     THEN <<EmitEff("user:online", ToRoom(GroupRoom(GroupOf(u))), TRUE,
                    RoomExcept(GroupRoom(GroupOf(u)), s))>>
     ELSE <<>>)
    \o <<EmitEff("user:online", ToRoom(AdminRoom), TRUE, RoomExcept(AdminRoom, s)),
         EmitEff("user:online", Self, TRUE, SelfOnly(s)),
         EmitEff("user:status:changed", All, TRUE, Everyone)>>

\* The online-status write resolves; the handler joins the rooms, emits the
\* presence events and registers its listeners (disconnect among them).
ConnUpdate(s) ==
    LET u == socks[s].uid IN
    /\ socks[s].st = "update"
    /\ users' = [users EXCEPT ![u] = [isOnline |-> TRUE, lastSeen |-> clock]]
    /\ rooms' = rooms \cup {<<s, e.dest>> : e \in {ConnectJoins(u)[i] : i \in 1..Len(ConnectJoins(u))}}
    /\ trace' = [trace EXCEPT ![s] = @ \o <<WriteEff(TRUE, clock)>> \o ConnectJoins(u)
                                        \o ConnectEmits(s, u)]
    /\ socks' = [socks EXCEPT ![s] = [@ EXCEPT !.st = "ready"]]
    /\ UNCHANGED <<clock, ticks, msgVars, sendVars, httpVars>>

\* The connection closes (client close or transport failure). The socket has
\* left its rooms when 'disconnect' is emitted; the disconnect listener, if it
\* is registered, starts and suspends on the offline-status write.
Disconnect(s) ==
    /\ socks[s].open
    /\ socks' = [socks EXCEPT ![s] = [@ EXCEPT !.open = FALSE,
                    !.disc = IF socks[s].st = "ready" THEN "pending" ELSE @]]
    /\ rooms' = {p \in rooms : p[1] # s}
    /\ UNCHANGED <<clock, ticks, users, trace, msgVars, sendVars, httpVars>>

\* the presence emissions of the disconnect handler
DisconnectEmits(s, u) ==
    (IF GroupOf(u) # None
     THEN <<EmitEff("user:offline", ToRoom(GroupRoom(GroupOf(u))), FALSE,
                    RoomExcept(GroupRoom(GroupOf(u)), s))>>
     ELSE <<>>)
    \o <<EmitEff("user:offline", ToRoom(AdminRoom), FALSE, RoomExcept(AdminRoom, s)),
         EmitEff("user:offline", Self, FALSE, SelfOnly(s)),
         EmitEff("user:status:changed", All, FALSE, Everyone)>>

\* The offline-status write resolves and the disconnect handler emits.
DiscUpdate(s) ==
    LET u == socks[s].uid IN
    /\ socks[s].disc = "pending"
    /\ users' = [users EXCEPT ![u] = [isOnline |-> FALSE, lastSeen |-> clock]]
    /\ trace' = [trace EXCEPT ![s] = @ \o <<WriteEff(FALSE, clock)>> \o DisconnectEmits(s, u)]
    /\ socks' = [socks EXCEPT ![s] = [@ EXCEPT !.disc = "done"]]
    /\ UNCHANGED <<clock, ticks, rooms, msgVars, sendVars, httpVars>>

(***************************************************************************)
(* The clock                                                               *)
(***************************************************************************)
EditTimeLimit == 15 * 60 * 1000

TickSteps == {1, EditTimeLimit}

Tick ==
    /\ ticks < MaxTicks
    /\ \E d \in TickSteps : clock' = clock + d
    /\ ticks' = ticks + 1
    /\ UNCHANGED <<connVars, msgVars, sendVars, httpVars>>

(***************************************************************************)
(* Initial state: the process has started, no connection, empty collections *)
(***************************************************************************)
\* A key of the cache: absent, or present with its value
NoEntry == [present |-> FALSE, value |-> <<>>]
Entry(v) == [present |-> TRUE, value |-> v]

NoRequest == [op |-> None, actor |-> None, mid |-> 0, fail |-> None, status |-> 0,
              emits |-> <<>>]

Init ==
    /\ clock = 0
    /\ ticks = 0
    /\ users = [u \in UserIds |-> [isOnline |-> FALSE, lastSeen |-> 0]]
    /\ socks = [s \in SockIds |-> NewSock]
    /\ rooms = {}
    /\ trace = [s \in SockIds |-> <<>>]
    /\ msgs = <<>>
    /\ nextId = 1
    /\ sends = <<>>
    /\ budget = 0
    /\ notifs = [u \in UserIds |-> <<>>]
    /\ cache = [u \in Subjects |-> NoEntry]
    /\ last = NoRequest
    /\ reqs = 0

NextConn ==
    \/ \E s \in SockIds, tok \in Tokens : Connect(s, tok)
    \/ \E s \in SockIds : ConnLookup(s)
    \/ \E s \in SockIds : ConnUpdate(s)
    \/ \E s \in SockIds : Disconnect(s)
    \/ \E s \in SockIds : DiscUpdate(s)
    \/ Tick

\* Connections and presence
SpecConn == Init /\ [][NextConn]_vars

(***************************************************************************)
(* Message text and tags                                                   *)
(***************************************************************************)
\* A text is a sequence of words; a word written @w is a mention.
Word(w) == [at |-> FALSE, w |-> w]
Mention(w) == [at |-> TRUE, w |-> w]

EmptyText == <<>>
PlainText == <<Word("hello")>>
TaggedText == <<Word("hello"), Mention("r2")>>
OwnTagText == <<Mention("r1"), Word("news")>>
EditedText == <<Word("bye"), Mention("r1")>>

\* utils/parser: the mentions of the text, in order
extractTags(text) ==
    LET ms == SelectSeq(text, LAMBDA t : t.at) IN [i \in 1..Len(ms) |-> ms[i].w]

Range(f) == {f[i] : i \in DOMAIN f}

\* A set of group ids as an array, in the collection's order
GroupSeq(S) == (IF "g1" \in S THEN <<"g1">> ELSE <<>>) \o (IF "g2" \in S THEN <<"g2">> ELSE <<>>)

GroupName(g) == <<"name", g>>

(***************************************************************************)
(* messages collection                                                     *)
(***************************************************************************)
NotEdited == [isEdited |-> FALSE, editedAt |-> 0]
NotDeleted == [isDeleted |-> FALSE, deletedBy |-> None, deletedAt |-> 0]

\* Message.create: the document with the schema defaults
NewMessage(id, sender, gid, text, file, tags, from, toGroups, now) ==
    [id |-> id, senderId |-> sender, groupId |-> gid, text |-> text, file |-> file,
     tags |-> tags, forwardedFrom |-> from, forwardedToGroups |-> toGroups,
     edited |-> NotEdited, deleted |-> NotDeleted, deliveredTo |-> <<>>, seenBy |-> <<>>,
     status |-> None, createdAt |-> now]

MsgIds == DOMAIN msgs

CopiesOf(id) == {c \in MsgIds : msgs[c].forwardedFrom = id}

(***************************************************************************)
(* config/redis.js (the mock) and notificationService.js                   *)
(***************************************************************************)
\* get: (key) => Promise.resolve(null)
RedisGet(c, u) == NoEntry

\* setex: (key, ttl, value) => Promise.resolve('OK'), nothing is kept
RedisSetex(c, u, v) == c

\* del: (...keys) => Promise.resolve(1)
RedisDel(c, u) == c

\* JSON.parse(JSON.stringify(list)): object ids and dates come back as strings
JsonRoundTrip(list) == [i \in 1..Len(list) |-> [list[i] EXCEPT !.wire = TRUE]]

CacheLimit == 100

\* notifications.splice(0, notifications.length - 100)
Trim(list) ==
    IF Len(list) > CacheLimit
    THEN SubSeq(list, Len(list) - CacheLimit + 1, Len(list))
    ELSE list

\* User.findByIdAndUpdate(userId, { $push: { notifications: notification } })
NotificationsPushed(u, nt) == [notifs EXCEPT ![u] = Append(@, nt)]

\* sendNotification: the value handed to redis.setex: the cached list, read,
\* extended by the notification and trimmed
CachedAfterRecord(u, nt) ==
    LET got == RedisGet(cache, u) IN
    JsonRoundTrip(Trim((IF got.present THEN got.value ELSE <<>>) \o <<nt>>))

\* sendNotification when none of its calls rejects: durable push, then the
\* cached list is written back
sendNotification(u, nt) ==
    /\ notifs' = NotificationsPushed(u, nt)
    /\ cache' = RedisSetex(cache, u, CachedAfterRecord(u, nt))

(***************************************************************************)
(* chatSocket.js: message:send handler, one await at a time                *)
(***************************************************************************)
\* payload.targetGroups: absent, or an array of ids (possibly empty)
NoTargets == [given |-> FALSE, ids |-> {}]
Targets(S) == [given |-> TRUE, ids |-> S]

SendPayloads ==
    { [text |-> PlainText, file |-> None, groupId |-> None, targetGroups |-> NoTargets],
      [text |-> TaggedText, file |-> None, groupId |-> "g1", targetGroups |-> NoTargets],
      [text |-> OwnTagText, file |-> None, groupId |-> None,
       targetGroups |-> Targets({"g2", NoSuchGroup})],
      [text |-> TaggedText, file |-> None, groupId |-> NoSuchGroup, targetGroups |-> NoTargets],
      [text |-> EmptyText, file |-> "f1", groupId |-> None, targetGroups |-> Targets({"g1", "g2"})],
      [text |-> PlainText, file |-> None, groupId |-> "g2", targetGroups |-> NoTargets],
      [text |-> EmptyText, file |-> None, groupId |-> None, targetGroups |-> NoTargets],
      [text |-> TaggedText, file |-> None, groupId |-> None, targetGroups |-> Targets({})] }

Terminal == {"done", "rejected", "crashed"}

\* targetGroups && targetGroups.length > 0
HasTargets(targetGroups) == targetGroups.given /\ targetGroups.ids # {}

ForwardedGroupsTagsFirst(targetGroups, tags) ==
    IF Len(tags) > 0
    THEN GroupSeq({g \in Groups : Region(g) \in Range(tags)})
    ELSE GroupSeq(Groups \cap targetGroups.ids)

\* forwardedGroups: Group.find by _id when targetGroups is given, else by region
ForwardedGroups(targetGroups, tags) ==
    IF HasTargets(targetGroups)
    THEN GroupSeq(Groups \cap targetGroups.ids)
    ELSE IF Len(tags) > 0
         THEN GroupSeq({g \in Groups : Region(g) \in Range(tags)})
         ELSE <<>>

MembersToNotifyAll(g, sender) == GroupUsers(g) \o GroupManagers(g)

\* [...group.users, ...group.managers] without the sender
MembersToNotify(g, sender) ==
    SelectSeq(GroupUsers(g) \o GroupManagers(g), LAMBDA m : m # sender)

Broadcast(room, mid, fwd) == [ev |-> "message:new", room |-> room, mid |-> mid, isForwarded |-> fwd]

\* wire: the ids and the date of the object are strings, as after JSON.parse
Notification(gid, sender, text) ==
    [type |-> "message", groupId |-> gid, senderId |-> sender,
     message |-> IF text = EmptyText THEN <<Word("Sent a file")>> ELSE text,
     createdAt |-> clock, wire |-> FALSE]

\* The event arrives on an established socket: the handler runs to its first await.
SendRecv(s, p) ==
    LET u == socks[s].uid
        tags == extractTags(p.text)
        h == [sock |-> s, uid |-> u, text |-> p.text, file |-> p.file,
              gid |-> IF p.groupId # None THEN p.groupId ELSE GroupOf(u),
              tg |-> p.targetGroups, tags |-> tags, fwd |-> <<>>,
              pc |-> IF HasTargets(p.targetGroups) \/ Len(tags) > 0 THEN "resolve" ELSE "create",
              primary |-> 0, copies |-> <<>>, bcast |-> <<>>, nrec |-> <<>>, nemit |-> <<>>,
              i |-> 0, todo |-> <<>>, persistFailed |-> FALSE, acks |-> <<>>]
    IN
    /\ budget > 0
    /\ socks[s].st = "ready" /\ socks[s].open
    /\ sends' = Append(sends, h)
    /\ budget' = budget - 1
    /\ UNCHANGED <<clock, ticks, connVars, msgVars, notifs, cache, httpVars>>

\* Group.find resolves
SendResolve(n) ==
    /\ sends[n].pc = "resolve"
    /\ sends' = [sends EXCEPT ![n] = [@ EXCEPT !.fwd = ForwardedGroups(sends[n].tg, sends[n].tags),
                                                !.pc = "create"]]
    /\ UNCHANGED <<clock, ticks, connVars, msgVars, budget, notifs, cache, httpVars>>

SendCreateEmitsFirst(n, ok) ==
    LET h == sends[n]
        h1 == [h EXCEPT !.bcast = Append(@, Broadcast(GroupRoom(h.gid), nextId, FALSE))]
    IN
    /\ h.pc = "create"
    /\ IF ok
       THEN /\ msgs' = msgs @@ (nextId :> NewMessage(nextId, h.uid, h.gid, h.text, h.file,
                                                   h.tags, 0, h.fwd, clock))
            /\ nextId' = nextId + 1
            /\ sends' = [sends EXCEPT ![n] = [h1 EXCEPT !.primary = nextId, !.pc = "populate"]]
       ELSE /\ sends' = [sends EXCEPT ![n] = [h1 EXCEPT !.persistFailed = TRUE, !.pc = "rejected"]]
            /\ UNCHANGED msgVars
    /\ UNCHANGED <<clock, ticks, connVars, budget, notifs, cache, httpVars>>

\* Message.create of the primary record resolves or rejects
SendCreate(n, ok) ==
    LET h == sends[n] IN
    /\ h.pc = "create"
    /\ IF ok
       THEN /\ msgs' = msgs @@ (nextId :> NewMessage(nextId, h.uid, h.gid, h.text, h.file,
                                                   h.tags, 0, h.fwd, clock))
            /\ nextId' = nextId + 1
            /\ sends' = [sends EXCEPT ![n] = [@ EXCEPT !.primary = nextId, !.pc = "populate"]]
       ELSE /\ sends' = [sends EXCEPT ![n] = [@ EXCEPT !.persistFailed = TRUE, !.pc = "rejected"]]
            /\ UNCHANGED msgVars
    /\ UNCHANGED <<clock, ticks, connVars, budget, notifs, cache, httpVars>>

\* after the last broadcast: Group.findById(targetGroupId) is awaited
AfterBroadcasts(h) == [h EXCEPT !.pc = "glookup"]

\* Message.findById(msg._id).populate resolves; the primary is broadcast
SendPopulate(n) ==
    LET h == sends[n]
        h1 == [h EXCEPT !.bcast = Append(@, Broadcast(GroupRoom(h.gid), h.primary, FALSE))]
    IN
    /\ h.pc = "populate"
    /\ sends' = [sends EXCEPT ![n] = IF Len(h.fwd) > 0
                                     THEN [h1 EXCEPT !.pc = "fcreate", !.i = 1]
                                     ELSE AfterBroadcasts(h1)]
    /\ UNCHANGED <<clock, ticks, connVars, msgVars, budget, notifs, cache, httpVars>>

\* Message.create of the copy for forwardedGroups[i] resolves or rejects
SendFwdCreate(n, ok) ==
    LET h == sends[n] IN
    /\ h.pc = "fcreate"
    /\ IF ok
       THEN /\ msgs' = msgs @@ (nextId :> NewMessage(nextId, h.uid, h.fwd[h.i], h.text, h.file,
                                                   h.tags, h.primary, h.fwd, clock))
            /\ nextId' = nextId + 1
            /\ sends' = [sends EXCEPT ![n] = [@ EXCEPT !.copies = Append(@, nextId),
                                                        !.pc = "fpopulate"]]
       ELSE /\ sends' = [sends EXCEPT ![n] = [@ EXCEPT !.persistFailed = TRUE, !.pc = "rejected"]]
            /\ UNCHANGED msgVars
    /\ UNCHANGED <<clock, ticks, connVars, budget, notifs, cache, httpVars>>

\* Message.findById(forwardedMsg._id).populate resolves; the copy is broadcast
\* with originalGroup.name read from populatedMsg.groupId, which is null when
\* the target group is no document: the read throws.
SendFwdPopulate(n) ==
    LET h == sends[n]
        h1 == [h EXCEPT !.bcast = Append(@, Broadcast(GroupRoom(h.fwd[h.i]), h.copies[h.i], TRUE))]
    IN
    /\ h.pc = "fpopulate"
    /\ sends' = [sends EXCEPT ![n] =
                    IF h.gid \notin Groups
                    THEN [h EXCEPT !.pc = "crashed"]
                    ELSE IF h.i < Len(h.fwd)
                         THEN [h1 EXCEPT !.pc = "fcreate", !.i = h.i + 1]
                         ELSE AfterBroadcasts(h1)]
    /\ UNCHANGED <<clock, ticks, connVars, msgVars, budget, notifs, cache, httpVars>>

\* ack?.({ ok: true, id: msg._id })
Acked(h) == [h EXCEPT !.pc = "done", !.acks = Append(@, [ok |-> TRUE, id |-> h.primary])]

\* the handler moves on to the forwarded group j (awaiting its Group.findById) or,
\* past the last one, acknowledges
ToForwardedGroup(h, j) ==
    IF j <= Len(h.fwd) THEN [h EXCEPT !.pc = "fglookup", !.i = j, !.todo = <<>>] ELSE Acked(h)

\* Group.findById(targetGroupId).populate resolves
SendGroupLookup(n) ==
    LET h == sends[n]
        todo == IF h.gid \in Groups THEN MembersToNotify(h.gid, h.uid) ELSE <<>>
    IN
    /\ h.pc = "glookup"
    /\ sends' = [sends EXCEPT ![n] = IF Len(todo) > 0
                                     THEN [h EXCEPT !.pc = "notify", !.todo = todo]
                                     ELSE ToForwardedGroup(h, 1)]
    /\ UNCHANGED <<clock, ticks, connVars, msgVars, budget, notifs, cache, httpVars>>

\* sendNotification(member) resolves; notification:new is emitted to the member's room
SendNotify(n) ==
    LET h == sends[n]
        m == Head(h.todo)
        nt == Notification(h.gid, h.uid, h.text)
        h1 == [h EXCEPT !.nrec = Append(@, [user |-> m, groupId |-> h.gid]),
                        !.nemit = Append(@, [room |-> UserRoom(m), groupId |-> h.gid]),
                        !.todo = Tail(@)]
    IN
    /\ h.pc = "notify"
    /\ sendNotification(m, nt)
    /\ sends' = [sends EXCEPT ![n] = IF Len(h.todo) > 1 THEN h1 ELSE ToForwardedGroup(h1, 1)]
    /\ UNCHANGED <<clock, ticks, connVars, msgVars, budget, httpVars>>

\* Group.findById(forwardedGroup._id).populate resolves; the notification title
\* reads group.name of the target group, which throws when that lookup was null
SendFwdGroupLookup(n) ==
    LET h == sends[n]
        g == h.fwd[h.i]
        todo == MembersToNotify(g, h.uid)
    IN
    /\ h.pc = "fglookup"
    /\ sends' = [sends EXCEPT ![n] =
                    IF h.gid \notin Groups
                    THEN [h EXCEPT !.pc = "crashed"]
                    ELSE IF Len(todo) > 0
                         THEN [h EXCEPT !.pc = "fnotify", !.todo = todo]
                         ELSE ToForwardedGroup(h, h.i + 1)]
    /\ UNCHANGED <<clock, ticks, connVars, msgVars, budget, notifs, cache, httpVars>>

\* sendNotification(member of the forwarded group) resolves; notification:new is emitted
SendFwdNotify(n) ==
    LET h == sends[n]
        g == h.fwd[h.i]
        m == Head(h.todo)
        nt == Notification(g, h.uid, h.text)
        h1 == [h EXCEPT !.nrec = Append(@, [user |-> m, groupId |-> g]),
                        !.nemit = Append(@, [room |-> UserRoom(m), groupId |-> g]),
                        !.todo = Tail(@)]
    IN
    /\ h.pc = "fnotify"
    /\ sendNotification(m, nt)
    /\ sends' = [sends EXCEPT ![n] = IF Len(h.todo) > 1 THEN h1 ELSE ToForwardedGroup(h1, h.i + 1)]
    /\ UNCHANGED <<clock, ticks, connVars, msgVars, budget, httpVars>>

Handlers == 1..Len(sends)

NextSendSteps ==
    \/ \E n \in Handlers : SendResolve(n)
    \/ \E n \in Handlers, ok \in BOOLEAN : SendCreate(n, ok)
    \/ \E n \in Handlers : SendPopulate(n)
    \/ \E n \in Handlers, ok \in BOOLEAN : SendFwdCreate(n, ok)
    \/ \E n \in Handlers : SendFwdPopulate(n)
    \/ \E n \in Handlers : SendGroupLookup(n)
    \/ \E n \in Handlers : SendNotify(n)
    \/ \E n \in Handlers : SendFwdGroupLookup(n)
    \/ \E n \in Handlers : SendFwdNotify(n)

\* The state after the member u1 and the manager u2 have connected, on sockets
\* 1 and 2: the state ConnUpdate leaves for each of them.
ReadySock(u) == [st |-> "ready", tok |-> [present |-> TRUE, sub |-> u, good |-> TRUE],
                 uid |-> u, open |-> TRUE, disc |-> "none", err |-> ""]

SockUser(s) == IF s = 1 THEN "u1" ELSE "u2"

InitEstablished ==
    /\ clock = 0
    /\ ticks = 0
    /\ users = [u \in UserIds |-> [isOnline |-> u \in {"u1", "u2"}, lastSeen |-> 0]]
    /\ socks = [s \in SockIds |-> IF s <= 2 THEN ReadySock(SockUser(s)) ELSE NewSock]
    /\ rooms = UNION {{<<s, UserRoom(SockUser(s))>>, <<s, GroupRoom(GroupOf(SockUser(s)))>>} :
                         s \in SockIds \cap {1, 2}}
    /\ trace = [s \in SockIds |-> <<>>]
    /\ sends = <<>>
    /\ cache = [u \in Subjects |-> NoEntry]
    /\ last = NoRequest

NoNotifications == [u \in UserIds |-> <<>>]

InitSend ==
    /\ InitEstablished
    /\ notifs = NoNotifications
    /\ msgs = <<>> /\ nextId = 1 /\ budget = MaxSends /\ reqs = 0

NextSend ==
    \/ \E s \in SockIds, p \in SendPayloads : SendRecv(s, p)
    \/ NextSendSteps

\* message:send events on established connections, handlers interleaved at their awaits
SpecSend == InitSend /\ [][NextSend]_vars

(***************************************************************************)
(* chatSocket.js: join:admin, group:join and group:leave handlers.         *)
(* The listeners exist once the connection handler has registered them;    *)
(* a group handler in flight is a record of sends.                         *)
(***************************************************************************)
LeaveEff(room) ==
    [k |-> "leave", ev |-> "leave", dest |-> room, online |-> TRUE, to |-> {}, at |-> 0]

\* The room event received last
RoomEvent(op, s, g) ==
    [op |-> op, actor |-> socks[s].uid, sock |-> s, gid |-> g, mid |-> 0, fail |-> None,
     status |-> 0, emits |-> <<>>]

JoinAdminGateNone(u) == TRUE

\* if (user.role === 'admin')
JoinAdminGate(u) == Role(u) = "admin"

\* join:admin
JoinAdmin(s) ==
    /\ budget > 0
    /\ socks[s].st = "ready" /\ socks[s].open
    /\ budget' = budget - 1
    /\ last' = RoomEvent("join:admin", s, None)
    /\ IF JoinAdminGate(socks[s].uid)
       THEN /\ rooms' = rooms \cup {<<s, AdminRoom>>}
            /\ trace' = [trace EXCEPT ![s] = Append(@, JoinEff(AdminRoom))]
       ELSE UNCHANGED <<rooms, trace>>
    /\ UNCHANGED <<clock, ticks, users, socks, msgVars, sends, notifs, cache, reqs>>

GroupEmitToAll(members, room, s) ==
    {x \in SockIds : <<x, room>> \in members /\ socks[x].open}

\* socket.to(`group:${groupId}`).emit: the open sockets of the room, except
\* the emitting one
GroupEmitTo(members, room, s) ==
    {x \in SockIds : <<x, room>> \in members /\ socks[x].open /\ x # s}

\* type, message, groupId and createdAt of the notification of a join or leave
GroupNotification(type, g, u) ==
    [type |-> type, groupId |-> g, senderId |-> None,
     message |-> <<Word(u), Word(type), Word(GroupName(g))>>, createdAt |-> clock,
     wire |-> FALSE]

\* The handler suspended on Group.findById(groupId).populate
GroupHandler(ev, s, g, to) ==
    [ev |-> ev, sock |-> s, uid |-> socks[s].uid, gid |-> g, pc |-> "glookup",
     to |-> to, todo |-> <<>>, nrec |-> <<>>, nemit |-> <<>>]

\* group:join up to its await: the socket joins the room and user:joined goes
\* to the others in it
GroupJoin(s, g) ==
    LET room == GroupRoom(g)
        joined == rooms \cup {<<s, room>>}
        to == GroupEmitTo(joined, room, s)
    IN
    /\ budget > 0
    /\ socks[s].st = "ready" /\ socks[s].open
    /\ budget' = budget - 1
    /\ last' = RoomEvent("group:join", s, g)
    /\ rooms' = joined
    /\ trace' = [trace EXCEPT ![s] = @ \o <<JoinEff(room),
                                             EmitEff("user:joined", ToRoom(room), TRUE, to)>>]
    /\ sends' = Append(sends, GroupHandler("group:join", s, g, to))
    /\ UNCHANGED <<clock, ticks, users, socks, msgVars, notifs, cache, reqs>>

\* group:leave up to its await: the socket leaves the room and user:left goes
\* to those in it
GroupLeave(s, g) ==
    LET room == GroupRoom(g)
        left == rooms \ {<<s, room>>}
        to == GroupEmitTo(left, room, s)
    IN
    /\ budget > 0
    /\ socks[s].st = "ready" /\ socks[s].open
    /\ budget' = budget - 1
    /\ last' = RoomEvent("group:leave", s, g)
    /\ rooms' = left
    /\ trace' = [trace EXCEPT ![s] = @ \o <<LeaveEff(room),
                                             EmitEff("user:left", ToRoom(room), TRUE, to)>>]
    /\ sends' = Append(sends, GroupHandler("group:leave", s, g, to))
    /\ UNCHANGED <<clock, ticks, users, socks, msgVars, notifs, cache, reqs>>

\* Group.findById(groupId).populate('users managers') resolves: null for no
\* group, else the members to notify
GroupLookup(n) ==
    LET h == sends[n]
        todo == IF h.gid \in Groups THEN MembersToNotify(h.gid, h.uid) ELSE <<>>
    IN
    /\ h.pc = "glookup"
    /\ sends' = [sends EXCEPT ![n] = [h EXCEPT !.todo = todo,
                                               !.pc = IF todo = <<>> THEN "done" ELSE "notify"]]
    /\ UNCHANGED <<clock, ticks, connVars, msgVars, budget, notifs, cache, httpVars>>

\* await sendNotification(member._id, notification), nothing emitted
GroupNotify(n) ==
    LET h == sends[n]
        m == Head(h.todo)
        type == IF h.ev = "group:join" THEN "user_joined" ELSE "user_left"
    IN
    /\ h.pc = "notify"
    /\ sendNotification(m, GroupNotification(type, h.gid, h.uid))
    /\ sends' = [sends EXCEPT ![n] = [h EXCEPT !.nrec = Append(@, m), !.todo = Tail(@),
                                               !.pc = IF Len(h.todo) > 1 THEN "notify" ELSE "done"]]
    /\ UNCHANGED <<clock, ticks, connVars, msgVars, budget, httpVars>>

InitRoom ==
    /\ clock = 0
    /\ ticks = 0
    /\ users = [u \in UserIds |-> [isOnline |-> FALSE, lastSeen |-> 0]]
    /\ socks = [s \in SockIds |-> NewSock]
    /\ rooms = {}
    /\ trace = [s \in SockIds |-> <<>>]
    /\ msgs = <<>>
    /\ nextId = 1
    /\ sends = <<>>
    /\ budget = MaxRoomOps
    /\ notifs = NoNotifications
    /\ cache = [u \in Subjects |-> NoEntry]
    /\ last = NoRequest
    /\ reqs = 0

NextRoom ==
    \/ \E s \in SockIds, tok \in Tokens : Connect(s, tok)
    \/ \E s \in SockIds : ConnLookup(s)
    \/ \E s \in SockIds : ConnUpdate(s)
    \/ \E s \in SockIds : Disconnect(s)
    \/ \E s \in SockIds : DiscUpdate(s)
    \/ \E s \in SockIds : JoinAdmin(s)
    \/ \E s \in SockIds, g \in GroupIds : GroupJoin(s, g)
    \/ \E s \in SockIds, g \in GroupIds : GroupLeave(s, g)
    \/ \E n \in Handlers : GroupLookup(n)
    \/ \E n \in Handlers : GroupNotify(n)

\* Connections with their room events, handlers interleaved at their awaits
SpecRoom == InitRoom /\ [][NextRoom]_vars

(***************************************************************************)
(* messageController.js: HTTP handlers, one request per action.            *)
(* fail names the store call of the handler that rejects (None: no call    *)
(* does); a rejected call lands in the handler's catch and answers 500.    *)
(***************************************************************************)
\* An id that names no message document
NoSuchMsg == 0

HttpEmit(ev, room, mid, by) == [ev |-> ev, room |-> room, mid |-> mid, by |-> by]

Response(op, actor, mid, fail, status, emits) ==
    [op |-> op, actor |-> actor, mid |-> mid, fail |-> fail, status |-> status,
     emits |-> emits]

\* One request is served: the response and the emissions are recorded; d is
\* the time that passed while the handler was suspended
Served(r, store, ids, d) ==
    /\ reqs > 0
    /\ reqs' = reqs - 1
    /\ last' = r
    /\ msgs' = store
    /\ nextId' = ids
    /\ d \in {0, 1}
    /\ d = 1 => ticks < MaxTicks
    /\ clock' = clock + d
    /\ ticks' = ticks + d
    /\ UNCHANGED <<connVars, sendVars>>

IsMember(g, u) == u \in Range(GroupUsers(g)) \/ u \in Range(GroupManagers(g))

HttpPayloads ==
    { [text |-> PlainText, file |-> None, groupId |-> "g1"],
      [text |-> EmptyText, file |-> "f1", groupId |-> "g2"],
      [text |-> EmptyText, file |-> None, groupId |-> "g1"],
      [text |-> PlainText, file |-> None, groupId |-> None],
      [text |-> PlainText, file |-> None, groupId |-> NoSuchGroup] }

SendFails == {None, "group", "create", "populate"}

\* sendMessage
SendMessage(actor, p, fail) ==
    LET doc == NewMessage(nextId, actor, p.groupId, p.text, p.file, extractTags(p.text),
                          0, <<>>, clock)
        R(status, emits) == Response("send", actor, NoSuchMsg, fail, status, emits)
    IN
    /\ reqs > 0
    /\ Cardinality(MsgIds) < MaxMsgs
    /\ IF (p.text = EmptyText /\ p.file = None) \/ p.groupId = None
         THEN fail = None /\ Served(R(400, <<>>), msgs, nextId, 0)
       ELSE IF fail = "group"
         THEN Served(R(500, <<>>), msgs, nextId, 0)
       ELSE IF p.groupId \notin Groups
         THEN fail = None /\ Served(R(404, <<>>), msgs, nextId, 0)
       ELSE IF ~IsMember(p.groupId, actor)
         THEN fail = None /\ Served(R(403, <<>>), msgs, nextId, 0)
       ELSE IF fail = "create"
         THEN Served(R(500, <<>>), msgs, nextId, 0)
       ELSE IF fail = "populate"
         THEN Served(R(500, <<>>), msgs @@ (nextId :> doc), nextId + 1, 0)
       ELSE Served(R(201, <<HttpEmit("message:new", GroupRoom(p.groupId), nextId, actor)>>),
                   msgs @@ (nextId :> doc), nextId + 1, 0)

IsOriginalAlways(m) == TRUE

\* !message.forwardedFrom
IsOriginal(m) == m.forwardedFrom = 0

AnnounceWithCopies(ev, store, mid, actor) ==
    <<HttpEmit(ev, GroupRoom(store[mid].groupId), mid, actor)>>
    \o (IF CopiesOf(mid) # {}
        THEN <<HttpEmit(ev, GroupRoom(store[CHOOSE c \in CopiesOf(mid) : TRUE].groupId), mid, actor)>>
        ELSE <<>>)

\* io.to(`group:${message.groupId}`).emit(ev, ...), once
Announce(ev, store, mid, actor) ==
    <<HttpEmit(ev, GroupRoom(store[mid].groupId), mid, actor)>>

EditWindowOpenSinceLastEdit(m, now) ==
    now - (IF m.edited.isEdited THEN m.edited.editedAt ELSE m.createdAt) <= EditTimeLimit

\* Date.now() - message.createdAt.getTime() > editTimeLimit is the refusal
EditWindowOpen(m, now) == ~(now - m.createdAt > EditTimeLimit)

\* message.text, message.tags, message.edited as editMessage sets them
EditedDoc(m, text, t) ==
    [m EXCEPT !.text = text, !.tags = extractTags(text),
              !.edited = [isEdited |-> TRUE, editedAt |-> t]]

CascadeEditFlagOnly(store, mid, text, t) ==
    [i \in DOMAIN store |-> IF store[i].forwardedFrom = mid
                            THEN [store[i] EXCEPT !.edited = [isEdited |-> TRUE, editedAt |-> t]]
                            ELSE store[i]]

\* Message.updateMany({ forwardedFrom: messageId }, { text, tags, edited })
CascadeEdit(store, mid, text, t) ==
    [i \in DOMAIN store |-> IF store[i].forwardedFrom = mid
                            THEN EditedDoc(store[i], text, t)
                            ELSE store[i]]

EditFails == {None, "find", "save", "cascade", "populate"}

\* editMessage; d is the time that passes between message.edited's new Date()
\* and the one of the cascade
EditMessage(actor, mid, text, fail, d) ==
    LET R(status, emits) == Response("edit", actor, mid, fail, status, emits) IN
    /\ reqs > 0
    /\ IF fail = "find"
         THEN d = 0 /\ Served(R(500, <<>>), msgs, nextId, 0)
       ELSE IF mid \notin MsgIds
         THEN d = 0 /\ fail = None /\ Served(R(404, <<>>), msgs, nextId, 0)
       ELSE IF msgs[mid].senderId # actor
         THEN d = 0 /\ fail = None /\ Served(R(403, <<>>), msgs, nextId, 0)
       ELSE IF ~EditWindowOpen(msgs[mid], clock)
         THEN d = 0 /\ fail = None /\ Served(R(400, <<>>), msgs, nextId, 0)
       ELSE IF fail = "save"
         THEN d = 0 /\ Served(R(500, <<>>), msgs, nextId, 0)
       ELSE
         LET saved == [msgs EXCEPT ![mid] = EditedDoc(@, text, clock)]
             original == IsOriginal(msgs[mid])
             cascaded == IF original THEN CascadeEdit(saved, mid, text, clock + d) ELSE saved
         IN
         /\ ~original => (d = 0 /\ fail # "cascade")
         /\ IF fail = "cascade"
              THEN Served(R(500, <<>>), saved, nextId, d)
            ELSE IF fail = "populate"
              THEN Served(R(500, <<>>), cascaded, nextId, d)
            ELSE Served(R(200, Announce("message:edited", msgs, mid, actor)), cascaded, nextId, d)

CanDeleteSenderOrAdmin(m, actor) == m.senderId = actor \/ Role(actor) = "admin"

\* canDelete: the sender, an admin or a manager
CanDelete(m, actor) ==
    m.senderId = actor \/ Role(actor) = "admin" \/ Role(actor) = "manager"

\* message.deleted as deleteMessage sets it
Tombstone(actor, t) == [isDeleted |-> TRUE, deletedBy |-> actor, deletedAt |-> t]

\* Message.updateMany({ forwardedFrom: messageId }, { deleted })
CascadeDelete(store, mid, actor, t) ==
    [i \in DOMAIN store |-> IF store[i].forwardedFrom = mid
                            THEN [store[i] EXCEPT !.deleted = Tombstone(actor, t)]
                            ELSE store[i]]

\* deleteMessage; d is the time that passes between message.deleted's
\* new Date() and the one of the cascade
DeleteMessage(actor, mid, fail, d) ==
    LET R(status, emits) == Response("delete", actor, mid, fail, status, emits) IN
    /\ reqs > 0
    /\ IF fail = "find"
         THEN d = 0 /\ Served(R(500, <<>>), msgs, nextId, 0)
       ELSE IF mid \notin MsgIds
         THEN d = 0 /\ fail = None /\ Served(R(404, <<>>), msgs, nextId, 0)
       ELSE IF ~CanDelete(msgs[mid], actor)
         THEN d = 0 /\ fail = None /\ Served(R(403, <<>>), msgs, nextId, 0)
       ELSE IF fail = "save"
         THEN d = 0 /\ Served(R(500, <<>>), msgs, nextId, 0)
       ELSE
         LET saved == [msgs EXCEPT ![mid] = [@ EXCEPT !.deleted = Tombstone(actor, clock)]]
             original == IsOriginal(msgs[mid])
             cascaded == IF original THEN CascadeDelete(saved, mid, actor, clock + d) ELSE saved
         IN
         /\ ~original => (d = 0 /\ fail # "cascade")
         /\ IF fail = "cascade"
              THEN Served(R(500, <<>>), saved, nextId, d)
            ELSE IF fail = "populate"
              THEN Served(R(500, <<>>), cascaded, nextId, d)
            ELSE Served(R(200, Announce("message:deleted", msgs, mid, actor)), cascaded, nextId, d)

ForwardedPrefix == <<Word("[Forwarded]")>>

ForwardedTextPlain(m) == m.text

\* `[Forwarded] ${originalMessage.text}`
ForwardedText(m) == ForwardedPrefix \o m.text

ForwardTargets == { {"g2"}, {"g1", "g2", NoSuchGroup} }

ForwardFails == {None, "find", "groups", "create"}

\* forwardMessage: one Message.create per existing destination group, run
\* together under Promise.all; created is the set of destinations whose create
\* resolved (all of them unless fail = "create")
ForwardMessage(actor, mid, groupIds, fail, created) ==
    LET R(status, emits) ==
            [op |-> "forward", actor |-> actor, mid |-> mid, fail |-> fail, status |-> status,
             emits |-> emits, groupIds |-> groupIds]
        gs == GroupSeq(Groups \cap groupIds)
        ks == {k \in 1..Len(gs) : gs[k] \in created}
        pos(k) == Cardinality({j \in ks : j <= k})
        doc(k) == NewMessage(nextId + pos(k) - 1, actor, gs[k],
                             ForwardedText(msgs[mid]), msgs[mid].file,
                             msgs[mid].tags, mid, <<>>, clock)
        store == msgs @@ [i \in {nextId + pos(k) - 1 : k \in ks} |->
                             doc(CHOOSE k \in ks : nextId + pos(k) - 1 = i)]
        emits == [k \in 1..Len(gs) |->
                     HttpEmit("message:new", GroupRoom(gs[k]), nextId + k - 1, actor)]
    IN
    /\ reqs > 0
    /\ Cardinality(MsgIds) + Len(gs) <= MaxMsgs
    /\ IF fail = "find"
         THEN created = {} /\ Served(R(500, <<>>), msgs, nextId, 0)
       ELSE IF mid \notin MsgIds
         THEN created = {} /\ fail = None /\ Served(R(404, <<>>), msgs, nextId, 0)
       ELSE IF fail = "groups"
         THEN created = {} /\ Served(R(500, <<>>), msgs, nextId, 0)
       ELSE IF fail = "create"
         THEN /\ created \subseteq Range(gs) /\ created # Range(gs)
              /\ Served(R(500, <<>>), store, nextId + Cardinality(ks), 0)
       ELSE created = Range(gs) /\ Served(R(200, emits), store, nextId + Len(gs), 0)

RequestIds == MsgIds \cup {NoSuchMsg}

\* message:send as a whole, when none of its store calls rejects: the records
\* it leaves, the primary first. The read of populatedMsg.groupId.name ends
\* the handler after the first copy when the target group is no document.
SentRecords(u, p, firstId, now) ==
    LET tags == extractTags(p.text)
        gid == IF p.groupId # None THEN p.groupId ELSE GroupOf(u)
        fwd == ForwardedGroups(p.targetGroups, tags)
        n == IF gid \notin Groups /\ Len(fwd) > 0 THEN 1 ELSE Len(fwd)
    IN
    [i \in firstId..(firstId + n) |->
        IF i = firstId
        THEN NewMessage(i, u, gid, p.text, p.file, tags, 0, fwd, now)
        ELSE NewMessage(i, u, fwd[i - firstId], p.text, p.file, tags, firstId, fwd, now)]

\* The collection as one message:send of u1 has left it, or empty
InitMsg ==
    /\ InitEstablished
    /\ notifs = NoNotifications
    /\ budget = 0
    /\ reqs = MaxReqs
    /\ \E p \in {q \in SendPayloads : q.text # EmptyText \/ q.file # None} :
          \/ msgs = SentRecords("u1", p, 1, 0) /\ nextId = Len(msgs) + 1
          \/ msgs = <<>> /\ nextId = 1

NextMsg ==
    \/ \E u \in UserIds, p \in HttpPayloads, f \in SendFails : SendMessage(u, p, f)
    \/ \E u \in UserIds, m \in RequestIds, f \in EditFails, d \in {0, 1} :
          EditMessage(u, m, EditedText, f, d)
    \/ \E u \in UserIds, m \in RequestIds, f \in EditFails, d \in {0, 1} :
          DeleteMessage(u, m, f, d)
    \/ \E u \in UserIds, m \in RequestIds, gs \in ForwardTargets, f \in ForwardFails,
          c \in SUBSET Groups : ForwardMessage(u, m, gs, f, c)
    \/ Tick

\* send, edit, delete and forward over HTTP, one request at a time
SpecMsg == InitMsg /\ [][NextMsg]_vars

(***************************************************************************)
(* messageController.js: acknowledgments and the retention sweep           *)
(***************************************************************************)
AckTargets == { {1}, {1, 2, NoSuchMsg} }

PushDeliveredUnfiltered(store, ids, u) ==
    [i \in DOMAIN store |-> IF i \in ids
                            THEN [store[i] EXCEPT !.deliveredTo = Append(@, u),
                                                  !.status = "delivered"]
                            ELSE store[i]]

\* Message.updateMany({ _id: { $in: messageIds }, deliveredTo: { $ne: userId } },
\*                    { $push: { deliveredTo: userId }, $set: { status: 'delivered' } })
PushDelivered(store, ids, u) ==
    [i \in DOMAIN store |-> IF i \in ids /\ u \notin Range(store[i].deliveredTo)
                            THEN [store[i] EXCEPT !.deliveredTo = Append(@, u),
                                                  !.status = "delivered"]
                            ELSE store[i]]

\* Message.updateMany({ _id: { $in: messageIds }, seenBy: { $ne: userId } },
\*                    { $push: { seenBy: userId }, $set: { status: 'seen' } })
PushSeen(store, ids, u) ==
    [i \in DOMAIN store |-> IF i \in ids /\ u \notin Range(store[i].seenBy)
                            THEN [store[i] EXCEPT !.seenBy = Append(@, u), !.status = "seen"]
                            ELSE store[i]]

\* markAsDelivered
MarkAsDelivered(actor, ids, fail) ==
    IF fail
    THEN Served(Response("delivered", actor, NoSuchMsg, "update", 500, <<>>), msgs, nextId, 0)
    ELSE Served(Response("delivered", actor, NoSuchMsg, None, 200, <<>>),
                PushDelivered(msgs, ids, actor), nextId, 0)

\* markAsSeen
MarkAsSeen(actor, ids, fail) ==
    IF fail
    THEN Served(Response("seen", actor, NoSuchMsg, "update", 500, <<>>), msgs, nextId, 0)
    ELSE Served(Response("seen", actor, NoSuchMsg, None, 200, <<>>),
                PushSeen(msgs, ids, actor), nextId, 0)

(***************************************************************************)
(* Acknowledgments in flight together: updateMany applies its filter and   *)
(* its update to one document at a time, each document atomically.         *)
(***************************************************************************)
\* The matching is by _id: the ids that name a document, in the collection's order
AckTodo(ids) == SelectSeq([i \in 1..MaxMsgs |-> i], LAMBDA i : i \in ids /\ i \in MsgIds)

\* markAsDelivered or markAsSeen up to its await of updateMany
AckRecv(op, actor, ids) ==
    /\ budget > 0
    /\ budget' = budget - 1
    /\ sends' = Append(sends, [op |-> op, actor |-> actor, ids |-> ids, todo |-> AckTodo(ids),
                               pc |-> "update", status |-> 0])
    /\ UNCHANGED <<clock, ticks, connVars, msgVars, notifs, cache, httpVars>>

\* updateMany reaches its next document
AckStep(n) ==
    LET h == sends[n]
        i == Head(h.todo)
    IN
    /\ h.pc = "update"
    /\ h.todo # <<>>
    /\ msgs' = IF h.op = "delivered" THEN PushDelivered(msgs, {i}, h.actor)
                                     ELSE PushSeen(msgs, {i}, h.actor)
    /\ sends' = [sends EXCEPT ![n] = [h EXCEPT !.todo = Tail(@)]]
    /\ UNCHANGED <<clock, ticks, connVars, nextId, budget, notifs, cache, httpVars>>

\* updateMany resolves and the handler answers, or it rejects and the catch
\* answers 500
AckRespond(n, ok) ==
    LET h == sends[n] IN
    /\ h.pc = "update"
    /\ ok => h.todo = <<>>
    /\ sends' = [sends EXCEPT ![n] = [h EXCEPT !.pc = "done", !.status = IF ok THEN 200 ELSE 500]]
    /\ UNCHANGED <<clock, ticks, connVars, msgVars, budget, notifs, cache, httpVars>>

InitAck ==
    /\ InitEstablished
    /\ notifs = NoNotifications
    /\ budget = MaxAcks
    /\ reqs = 0
    /\ \E p \in {q \in SendPayloads : q.text # EmptyText \/ q.file # None} :
          msgs = SentRecords("u1", p, 1, 0) /\ nextId = Len(msgs) + 1

NextAck ==
    \/ \E u \in UserIds, ids \in AckTargets : AckRecv("delivered", u, ids)
    \/ \E u \in UserIds, ids \in AckTargets : AckRecv("seen", u, ids)
    \/ \E n \in Handlers : AckStep(n)
    \/ \E n \in Handlers, ok \in BOOLEAN : AckRespond(n, ok)

\* markAsDelivered and markAsSeen requests served concurrently
SpecAck == InitAck /\ [][NextAck]_vars

Hour == 60 * 60 * 1000

\* 24 * 60 * 60 * 1000
Retention == 24 * Hour

ExpiredInclusive(m, now) == m.deleted.isDeleted /\ m.deleted.deletedAt <= now - Retention

\* { 'deleted.isDeleted': true, 'deleted.deletedAt': { $lt: twentyFourHoursAgo } }
Expired(m, now) == m.deleted.isDeleted /\ m.deleted.deletedAt < now - Retention

SweptNothing(store, now) == store

\* Message.deleteMany(filter)
Swept(store, now) ==
    [i \in {j \in DOMAIN store : ~Expired(store[j], now)} |-> store[i]]

\* cleanupDeletedMessages, one run of the hourly timer: twentyFourHoursAgo is
\* taken from the clock, d passes while deleteMany is awaited; a rejected
\* deleteMany is logged and swallowed
Sweep(fail, d) ==
    IF fail
    THEN Served(Response("sweep", None, NoSuchMsg, "deleteMany", 0, <<>>), msgs, nextId, d)
    ELSE Served(Response("sweep", None, NoSuchMsg, None, 0, <<>>), Swept(msgs, clock), nextId, d)

SweepTickSteps == {Hour, 23 * Hour, 24 * Hour}

\* Hours pass
TickHours ==
    /\ ticks < MaxTicks
    /\ \E d \in SweepTickSteps : clock' = clock + d
    /\ ticks' = ticks + 1
    /\ UNCHANGED <<connVars, msgVars, sendVars, httpVars>>

NextSweep ==
    \/ \E u \in UserIds, p \in HttpPayloads : SendMessage(u, p, None)
    \/ \E u \in UserIds, m \in RequestIds, d \in {0, 1} : EditMessage(u, m, EditedText, None, d)
    \/ \E u \in UserIds, m \in RequestIds, d \in {0, 1} : DeleteMessage(u, m, None, d)
    \/ \E u \in UserIds, m \in RequestIds, gs \in ForwardTargets :
          ForwardMessage(u, m, gs, None, Groups \cap gs)
    \/ \E u \in UserIds, ids \in AckTargets, f \in BOOLEAN : MarkAsDelivered(u, ids, f)
    \/ \E u \in UserIds, ids \in AckTargets, f \in BOOLEAN : MarkAsSeen(u, ids, f)
    \/ \E f \in BOOLEAN, d \in {0, 1} : Sweep(f, d)
    \/ TickHours

\* the retention sweep among the HTTP requests
SpecSweep == InitMsg /\ [][NextSweep]_vars

(***************************************************************************)
(* The hourly timer: setInterval(cleanupDeletedMessages, ...) calls the     *)
(* sweep again and again, whatever the earlier runs did.                   *)
(***************************************************************************)
\* One run of the timer. run tells consecutive runs apart, purged is
\* result.deletedCount, failed tells that the run before this one was a
\* failing one that left expired records behind.
TimerRun(fail, purged, failed) ==
    [op |-> "sweep", actor |-> None, mid |-> NoSuchMsg,
     fail |-> IF fail THEN "deleteMany" ELSE None, status |-> 0, emits |-> <<>>,
     run |-> IF last.op = "sweep" THEN 1 - last.run ELSE 0,
     purged |-> purged, failed |-> failed]

\* cleanupDeletedMessages called by the timer: deleteMany resolves, or it
\* rejects and the catch logs the error
SweepTimer(fail) ==
    LET kept == Swept(msgs, clock) IN
    /\ IF fail
       THEN /\ msgs' = msgs
            /\ last' = TimerRun(TRUE, 0, \E i \in MsgIds : Expired(msgs[i], clock))
       ELSE /\ msgs' = kept
            /\ last' = TimerRun(FALSE, Cardinality(DOMAIN msgs) - Cardinality(DOMAIN kept),
                                last.op = "sweep" /\ last.fail # None /\ last.failed)
    /\ UNCHANGED <<clock, ticks, connVars, nextId, sendVars, reqs>>

NextTimer ==
    \/ \E u \in UserIds, m \in RequestIds, d \in {0, 1} : DeleteMessage(u, m, None, d)
    \/ TickHours
    \/ \E f \in BOOLEAN : SweepTimer(f)

\* The timer never stops firing: the callback has no way to clear the
\* interval and swallows what deleteMany throws
TimerFairness == WF_vars(\E f \in BOOLEAN : SweepTimer(f))

\* deletes, the passing of hours and the hourly sweep
SpecTimer == InitMsg /\ [][NextTimer]_vars /\ TimerFairness

(***************************************************************************)
(* editMessage and deleteMessage in flight together, interleaved at their  *)
(* awaits: findById, message.save(), updateMany, findById().populate().    *)
(***************************************************************************)
\* editMessage or deleteMessage up to its await of Message.findById; overlap
\* tells that another request was in flight when this one arrived
RaceRecv(op, actor, mid) ==
    /\ budget > 0
    /\ budget' = budget - 1
    /\ sends' = Append(sends, [op |-> op, actor |-> actor, mid |-> mid, text |-> EditedText,
                               pc |-> "find", original |-> FALSE, at |-> 0, doc |-> None,
                               status |-> 0,
                               emits |-> <<>>,
                               overlap |-> \E k \in Handlers : sends[k].pc # "done"])
    /\ UNCHANGED <<clock, ticks, connVars, msgVars, notifs, cache, httpVars>>

Answered(h, status) == [h EXCEPT !.pc = "done", !.status = status]

\* Message.findById resolves; the checks run on the document read, which is
\* then changed in memory and handed to save()
RaceFind(n) ==
    LET h == sends[n] IN
    /\ h.pc = "find"
    /\ sends' = [sends EXCEPT ![n] =
          IF h.mid \notin MsgIds THEN Answered(h, 404)
          ELSE IF h.op = "edit" /\ msgs[h.mid].senderId # h.actor THEN Answered(h, 403)
          ELSE IF h.op = "edit" /\ ~EditWindowOpen(msgs[h.mid], clock) THEN Answered(h, 400)
          ELSE IF h.op = "delete" /\ ~CanDelete(msgs[h.mid], h.actor) THEN Answered(h, 403)
          ELSE [h EXCEPT !.pc = "save", !.original = IsOriginal(msgs[h.mid]), !.at = clock,
                         !.doc = msgs[h.mid]]]
    /\ UNCHANGED <<clock, ticks, connVars, msgVars, budget, notifs, cache, httpVars>>

\* What the request has changed on its in-memory document
Changed(h, m) ==
    IF h.op = "edit" THEN EditedDoc(m, h.text, h.at)
                     ELSE [m EXCEPT !.deleted = Tombstone(h.actor, h.at)]

SavedWhole(store, h) == [store EXCEPT ![h.mid] = Changed(h, h.doc)]

\* message.save(): the update carries the modified paths only, so the other
\* fields of the stored document stay as they are in the collection
Saved(store, h) == [store EXCEPT ![h.mid] = Changed(h, @)]

\* message.save() resolves
RaceSave(n) ==
    LET h == sends[n] IN
    /\ h.pc = "save"
    /\ msgs' = Saved(msgs, h)
    /\ sends' = [sends EXCEPT ![n] = [h EXCEPT !.pc = IF h.original THEN "cascade" ELSE "populate"]]
    /\ UNCHANGED <<clock, ticks, connVars, nextId, budget, notifs, cache, httpVars>>

\* Message.updateMany({ forwardedFrom: messageId }, ...) resolves
RaceCascade(n) ==
    LET h == sends[n] IN
    /\ h.pc = "cascade"
    /\ msgs' = IF h.op = "edit" THEN CascadeEdit(msgs, h.mid, h.text, clock)
                                ELSE CascadeDelete(msgs, h.mid, h.actor, clock)
    /\ sends' = [sends EXCEPT ![n] = [h EXCEPT !.pc = "populate"]]
    /\ UNCHANGED <<clock, ticks, connVars, nextId, budget, notifs, cache, httpVars>>

\* Message.findById(...).populate resolves; the event is emitted and the
\* request answered
RacePopulate(n) ==
    LET h == sends[n]
        ev == IF h.op = "edit" THEN "message:edited" ELSE "message:deleted"
    IN
    /\ h.pc = "populate"
    /\ sends' = [sends EXCEPT ![n] =
                    [Answered(h, 200) EXCEPT !.emits = Announce(ev, msgs, h.mid, h.actor)]]
    /\ UNCHANGED <<clock, ticks, connVars, msgVars, budget, notifs, cache, httpVars>>

InitRace ==
    /\ InitEstablished
    /\ notifs = NoNotifications
    /\ budget = MaxRace
    /\ reqs = 0
    /\ \E p \in {q \in SendPayloads : q.text # EmptyText \/ q.file # None} :
          msgs = SentRecords("u1", p, 1, 0) /\ nextId = Len(msgs) + 1

NextRace ==
    \/ \E u \in UserIds, m \in RequestIds : RaceRecv("edit", u, m)
    \/ \E u \in UserIds, m \in RequestIds : RaceRecv("delete", u, m)
    \/ \E n \in Handlers : RaceFind(n)
    \/ \E n \in Handlers : RaceSave(n)
    \/ \E n \in Handlers : RaceCascade(n)
    \/ \E n \in Handlers : RacePopulate(n)

\* edit and delete requests served concurrently
SpecRace == InitRace /\ [][NextRace]_vars

(***************************************************************************)
(* notificationService.js: record and fetch, one call per action           *)
(***************************************************************************)
NotifInputs == { Notification("g1", "u1", PlainText), Notification("g2", "u2", EmptyText) }

\* The users the service is called for: one with a record, one with none
NotifUsers == {"u1", Ghost}

\* The call served last: the call that rejected (None: none did), the value
\* returned, for a fetch the list returned and where it came from, the value
\* handed to redis.setex, and what held before: for an eviction the list the
\* fetch just before it had returned, for markSeen and clear the durable list
NotifResponse(op, u, nt, fail, ok, result, source, written, before) ==
    [op |-> op, actor |-> u, nt |-> nt, fail |-> fail, ok |-> ok, result |-> result,
     source |-> source, written |-> written, before |-> before]

NotifServed(r) ==
    /\ reqs > 0
    /\ reqs' = reqs - 1
    /\ last' = r
    /\ UNCHANGED <<clock, ticks, connVars, msgVars, sends, budget>>

RecordFails == {None, "push", "get", "setex"}

\* sendNotification(userId, notification): true, or false from the catch when
\* a call rejected
Record(u, nt, fail) ==
    LET R(ok, written) ==
            NotifResponse("record", u, nt, fail, ok, <<>>, None, written, NoEntry)
    IN
    IF fail = "push"
    THEN NotifServed(R(FALSE, NoEntry)) /\ UNCHANGED <<notifs, cache>>
    ELSE IF fail \in {"get", "setex"}
    THEN /\ notifs' = NotificationsPushed(u, nt)
         /\ NotifServed(R(FALSE, NoEntry))
         /\ UNCHANGED cache
    ELSE /\ sendNotification(u, nt)
         /\ NotifServed(R(TRUE, Entry(CachedAfterRecord(u, nt))))

FetchFails == {None, "get", "find", "setex"}

\* getNotifications(userId): the cached list when redis.get yields one, else
\* the user's notifications array, written to the cache as it is; [] for no
\* user, and [] from the catch when a call rejected
Fetch(u, fail) ==
    LET got == RedisGet(cache, u)
        R(result, source, written) ==
            NotifResponse("fetch", u, None, fail, TRUE, result, source, written, NoEntry)
    IN
    IF fail = "get"
    THEN NotifServed(R(<<>>, None, NoEntry)) /\ UNCHANGED <<notifs, cache>>
    ELSE IF got.present
    THEN /\ fail = None
         /\ NotifServed(R(got.value, "cache", NoEntry))
         /\ UNCHANGED <<notifs, cache>>
    ELSE IF fail = "find"
    THEN NotifServed(R(<<>>, None, NoEntry)) /\ UNCHANGED <<notifs, cache>>
    ELSE IF u \notin UserIds
    THEN /\ fail = None
         /\ NotifServed(R(<<>>, None, NoEntry))
         /\ UNCHANGED <<notifs, cache>>
    ELSE IF fail = "setex"
    THEN NotifServed(R(<<>>, None, NoEntry)) /\ UNCHANGED <<notifs, cache>>
    ELSE /\ cache' = RedisSetex(cache, u, JsonRoundTrip(notifs[u]))
         /\ NotifServed(R(notifs[u], "durable", Entry(JsonRoundTrip(notifs[u]))))
         /\ UNCHANGED notifs

\* The key notifications:<u> expires or is evicted
Evict(u) ==
    /\ cache' = [cache EXCEPT ![u] = NoEntry]
    /\ NotifServed(NotifResponse("evict", u, None, None, TRUE, <<>>, None, NoEntry,
                                 IF last.op = "fetch" /\ last.actor = u /\ last.fail = None
                                 THEN Entry(last.result) ELSE NoEntry))
    /\ UNCHANGED notifs

ClearedNothing(durable, u) == durable

\* User.findByIdAndUpdate(userId, { $set: { notifications: [] } }); no
\* document is touched when the id names no user
Cleared(durable, u) == IF u \in UserIds THEN [durable EXCEPT ![u] = <<>>] ELSE durable

DurableOf(u) == IF u \in UserIds THEN notifs[u] ELSE <<>>

ClearFails == {None, "del", "update"}

\* The body markNotificationsAsSeen and clearNotifications share: redis.del,
\* then the truncation; true, or false from the catch
DelThenTruncate(op, u, fail) ==
    LET R(ok) == NotifResponse(op, u, None, fail, ok, <<>>, None, NoEntry, Entry(DurableOf(u)))
    IN
    IF fail = "del"
    THEN NotifServed(R(FALSE)) /\ UNCHANGED <<notifs, cache>>
    ELSE IF fail = "update"
    THEN /\ cache' = RedisDel(cache, u)
         /\ NotifServed(R(FALSE))
         /\ UNCHANGED notifs
    ELSE /\ cache' = RedisDel(cache, u)
         /\ notifs' = Cleared(notifs, u)
         /\ NotifServed(R(TRUE))

\* markNotificationsAsSeen(userId)
MarkSeen(u, fail) == DelThenTruncate("seen", u, fail)

\* clearNotifications(userId)
Clear(u, fail) == DelThenTruncate("clear", u, fail)

\* A durable list of n notifications, told apart by their createdAt
DurableList(n) == [i \in 1..n |-> [Notification("g1", "u2", PlainText) EXCEPT !.createdAt = i]]

\* The cache is empty; u1's notifications array is empty or, after that many
\* records, one entry longer than the cached list may be
InitNotif ==
    /\ InitEstablished
    /\ msgs = <<>>
    /\ nextId = 1
    /\ budget = 0
    /\ reqs = MaxNotifOps
    /\ \E n \in {0, CacheLimit + 1} :
          notifs = [u \in UserIds |-> IF u = "u1" THEN DurableList(n) ELSE <<>>]

NextNotif ==
    \/ \E nt \in NotifInputs, f \in RecordFails : Record("u1", nt, f)
    \/ \E u \in NotifUsers, f \in FetchFails : Fetch(u, f)
    \/ \E u \in NotifUsers : Evict(u)
    \/ \E u \in NotifUsers, f \in ClearFails : MarkSeen(u, f)
    \/ \E u \in NotifUsers, f \in ClearFails : Clear(u, f)

\* record, fetch and cache eviction, one call at a time
SpecNotif == InitNotif /\ [][NextNotif]_vars

(***************************************************************************)
(* notificationService.js: calls for one user in flight together,          *)
(* interleaved at their awaits                                             *)
(***************************************************************************)
\* sendNotification, markNotificationsAsSeen or clearNotifications up to its
\* first await
CallRecv(op, u, nt) ==
    /\ budget > 0
    /\ budget' = budget - 1
    /\ sends' = Append(sends, [op |-> op, actor |-> u, nt |-> nt, got |-> NoEntry,
                               pc |-> IF op = "record" THEN "push" ELSE "del", ok |-> FALSE])
    /\ UNCHANGED <<clock, ticks, connVars, msgVars, notifs, cache, httpVars>>

\* The cache command issued last: setex with the list it carried, or del
CacheCommand(op, u, written) ==
    [op |-> op, actor |-> u, mid |-> 0, fail |-> None, status |-> 0, emits |-> <<>>,
     written |-> written]

\* User.findByIdAndUpdate(userId, { $push }) resolves
RecPush(n) ==
    LET h == sends[n] IN
    /\ h.pc = "push"
    /\ notifs' = NotificationsPushed(h.actor, h.nt)
    /\ sends' = [sends EXCEPT ![n] = [h EXCEPT !.pc = "get"]]
    /\ UNCHANGED <<clock, ticks, connVars, msgVars, budget, cache, httpVars>>

\* redis.get resolves
RecGet(n) ==
    LET h == sends[n] IN
    /\ h.pc = "get"
    /\ sends' = [sends EXCEPT ![n] = [h EXCEPT !.got = RedisGet(cache, h.actor), !.pc = "setex"]]
    /\ UNCHANGED <<clock, ticks, connVars, msgVars, budget, notifs, cache, httpVars>>

\* redis.setex of the list read earlier with the notification pushed, trimmed
RecSetex(n) ==
    LET h == sends[n]
        value == JsonRoundTrip(Trim((IF h.got.present THEN h.got.value ELSE <<>>) \o <<h.nt>>))
    IN
    /\ h.pc = "setex"
    /\ cache' = RedisSetex(cache, h.actor, value)
    /\ last' = CacheCommand("setex", h.actor, Entry(value))
    /\ sends' = [sends EXCEPT ![n] = [h EXCEPT !.pc = "done", !.ok = TRUE]]
    /\ UNCHANGED <<clock, ticks, connVars, msgVars, budget, notifs, reqs>>

\* redis.del resolves
ClearDel(n) ==
    LET h == sends[n] IN
    /\ h.pc = "del"
    /\ cache' = RedisDel(cache, h.actor)
    /\ last' = CacheCommand("del", h.actor, NoEntry)
    /\ sends' = [sends EXCEPT ![n] = [h EXCEPT !.pc = "truncate"]]
    /\ UNCHANGED <<clock, ticks, connVars, msgVars, budget, notifs, reqs>>

\* User.findByIdAndUpdate(userId, { $set: { notifications: [] } }) resolves
ClearTruncate(n) ==
    LET h == sends[n] IN
    /\ h.pc = "truncate"
    /\ notifs' = Cleared(notifs, h.actor)
    /\ sends' = [sends EXCEPT ![n] = [h EXCEPT !.pc = "done", !.ok = TRUE]]
    /\ UNCHANGED <<clock, ticks, connVars, msgVars, budget, cache, httpVars>>

InitCalls ==
    /\ InitEstablished
    /\ msgs = <<>>
    /\ nextId = 1
    /\ notifs = NoNotifications
    /\ budget = MaxCalls
    /\ reqs = 0

NextCalls ==
    \/ \E nt \in NotifInputs : CallRecv("record", "u1", nt)
    \/ CallRecv("seen", "u1", None)
    \/ CallRecv("clear", "u1", None)
    \/ \E n \in Handlers : RecPush(n)
    \/ \E n \in Handlers : RecGet(n)
    \/ \E n \in Handlers : RecSetex(n)
    \/ \E n \in Handlers : ClearDel(n)
    \/ \E n \in Handlers : ClearTruncate(n)

\* record, markSeen and clear for one user, served concurrently
SpecCalls == InitCalls /\ [][NextCalls]_vars

(***************************************************************************)
(* Connections and presence: properties                                    *)
(***************************************************************************)
IsEmit(e) == e.k = "emit"

OnlineEmits(s) == SelectSeq(trace[s], LAMBDA e : IsEmit(e) /\ e.online)

OfflineEmits(s) == SelectSeq(trace[s], LAMBDA e : IsEmit(e) /\ ~e.online)

Dests(es) == [i \in 1..Len(es) |-> es[i].dest]

BadToken(tok) == ~tok.present \/ ~tok.good

\* C1: a connection attempt with no token or with a token that fails
\* verification is rejected with the error 'unauth' and the connection handler
\* never runs for it: it joins no room, writes no presence and emits nothing;
\* the same holds when the token verifies and its subject is no user record:
\* the socket is disconnected without a write, a join or an emission.
C1_NoStateWithoutAuth ==
    \A s \in SockIds :
        LET k == socks[s] IN
        /\ (k.st # "new" /\ BadToken(k.tok)) =>
              /\ k.st = "rejected" /\ k.err = "unauth" /\ ~k.open /\ k.disc = "none"
              /\ trace[s] = <<>> /\ RoomsOf(s) = {}
        /\ (k.st \notin {"new", "lookup"} /\ ~BadToken(k.tok) /\ k.tok.sub \notin UserIds) =>
              /\ k.st = "dropped" /\ ~k.open /\ k.disc = "none"
              /\ trace[s] = <<>> /\ RoomsOf(s) = {}

C1_Witness ==
    \E s1, s2 \in SockIds :
        /\ socks[s1].st = "rejected" /\ socks[s1].tok.present /\ ~socks[s1].tok.good
        /\ socks[s2].st = "dropped" /\ socks[s2].uid = Ghost

\* C4: every authenticated connection that disconnects, also while its
\* connection handler is still suspended on the user lookup or on the
\* online-status write, runs the offline transition: once the connection is
\* closed and none of its handlers is pending, its trace holds the write
\* online=false after the write online=true, and the offline emissions.
C4_DisconnectRunsOffline ==
    \A s \in SockIds :
        (socks[s].st = "ready" /\ ~socks[s].open /\ socks[s].disc # "pending") =>
            /\ \E i, j \in 1..Len(trace[s]) :
                  /\ i < j
                  /\ trace[s][i].k = "write" /\ trace[s][i].online
                  /\ trace[s][j].k = "write" /\ ~trace[s][j].online
            /\ OfflineEmits(s) # <<>>

\* C5 as stated: on every successful connect the flag is written before any
\* emission and the online event goes to exactly four destinations, in the
\* order group room (excluding the socket), admin room, the socket, everyone.
C5_FourDestinations ==
    \A s \in SockIds :
        socks[s].st = "ready" =>
            /\ trace[s][1].k = "write" /\ trace[s][1].online
            /\ Len(OnlineEmits(s)) = 4
            /\ Dests(OnlineEmits(s)) =
                  <<ToRoom(GroupRoom(GroupOf(socks[s].uid))), ToRoom(AdminRoom), Self, All>>

\* C5 amended: on every successful connect the online flag and last-seen are
\* written before any emission; the online event is then emitted, in this
\* order, to the user's group room excluding the connecting socket (only when
\* the user has a group), to the admin room excluding the connecting socket,
\* to the connecting socket itself and to all connections: four destinations
\* for a user with a group, the last three for a user with none.
C5_DestinationsInOrder ==
    \A s \in SockIds :
        socks[s].st = "ready" =>
            LET u == socks[s].uid
                es == OnlineEmits(s)
            IN
            /\ trace[s][1].k = "write" /\ trace[s][1].online
            /\ \A i \in 2..Len(trace[s]) : trace[s][i].k = "write" => ~trace[s][i].online
            /\ Dests(es) =
                  (IF GroupOf(u) # None THEN <<ToRoom(GroupRoom(GroupOf(u)))>> ELSE <<>>)
                  \o <<ToRoom(AdminRoom), Self, All>>
            /\ \A i \in 1..Len(es) :
                  /\ es[i].dest # All => es[i].ev = "user:online"
                  /\ es[i].dest = All => es[i].ev = "user:status:changed"
                  /\ es[i].dest \notin {Self, All} => s \notin es[i].to
                  /\ es[i].dest = Self => es[i].to \subseteq {s}

C5_Witness ==
    \E s1, s2 \in SockIds :
        /\ socks[s1].st = "ready" /\ GroupOf(socks[s1].uid) = None
        /\ Len(OnlineEmits(s1)) = 3
        /\ socks[s2].st = "ready" /\ GroupOf(socks[s2].uid) # None
        /\ Len(OnlineEmits(s2)) = 4
        /\ s1 \in OnlineEmits(s2)[4].to

\* C6: on every disconnect of an established connection the flag is written
\* false with last-seen stamped, and the offline event is emitted to the same
\* four destinations as the online event of that connection, each of which
\* receives it: the emission to the user's own personal channel reaches a socket.
C6_OfflineMirrorsOnline ==
    \A s \in SockIds :
        socks[s].disc = "done" =>
            /\ \E i \in 1..Len(trace[s]) : trace[s][i].k = "write" /\ ~trace[s][i].online
            /\ Dests(OfflineEmits(s)) = Dests(OnlineEmits(s))
            /\ \A i \in 1..Len(OfflineEmits(s)) :
                  OfflineEmits(s)[i].dest = Self => OfflineEmits(s)[i].to # {}

(***************************************************************************)
(* message:send: properties                                                *)
(***************************************************************************)
\* C2: for every message:send whose persistence steps all succeed, with N the
\* number of resolved forwarding groups, exactly 1+N records are created (the
\* primary in the target group, one copy per forwarding group with
\* forwardedFrom = the primary's id) and exactly 1+N message:new broadcasts
\* occur, one to each record's own group room.
C2_RecordsAndBroadcasts ==
    \A n \in Handlers :
        LET h == sends[n]
            N == Len(h.fwd)
        IN
        (h.pc \in Terminal /\ ~h.persistFailed) =>
            /\ h.primary \in MsgIds
            /\ msgs[h.primary].groupId = h.gid /\ msgs[h.primary].forwardedFrom = 0
            /\ Len(h.copies) = N
            /\ \A i \in 1..Len(h.copies) :
                  /\ msgs[h.copies[i]].groupId = h.fwd[i]
                  /\ msgs[h.copies[i]].forwardedFrom = h.primary
            /\ Len(h.bcast) = 1 + N
            /\ h.bcast[1] = Broadcast(GroupRoom(h.gid), h.primary, FALSE)
            /\ \A i \in 1..N : h.bcast[i + 1] = Broadcast(GroupRoom(h.fwd[i]), h.copies[i], TRUE)

\* C3: within one connection the events are processed in the order received:
\* when a later message:send of a socket has committed a side effect (its
\* primary record, the first of them), every earlier message:send of that
\* socket has committed all of its own (its handler has ended).
C3_InOrderPerConnection ==
    \A a, b \in Handlers :
        (a < b /\ sends[a].sock = sends[b].sock /\ sends[b].primary # 0) =>
            sends[a].pc \in Terminal

(***************************************************************************)
(* editMessage, deleteMessage: properties                                  *)
(***************************************************************************)
\* C7: an edit of an existing message, when no store call fails, succeeds if
\* and only if the actor is the message's sender and now - createdAt is at
\* most 15 minutes (creation time, not last edit time); a non-sender is
\* answered 403, a sender past the window 400, and in both cases no message
\* document changes and nothing is emitted.
C7_EditBySenderWithinWindow ==
    [][ (reqs' = reqs - 1 /\ last'.op = "edit" /\ last'.mid \in MsgIds
           /\ last'.fail # "find") =>
          LET m == msgs[last'.mid]
              sender == m.senderId = last'.actor
              inWindow == clock - m.createdAt <= 15 * 60 * 1000
          IN
          /\ last'.status = 200 => (sender /\ inWindow)
          /\ (sender /\ inWindow /\ last'.fail = None) => last'.status = 200
          /\ ~sender => last'.status = 403
          /\ (sender /\ ~inWindow) => last'.status = 400
          /\ last'.status \in {403, 400} => (msgs' = msgs /\ last'.emits = <<>>)
      ]_vars

\* An edit refused as too old although the message was edited less than 15
\* minutes ago, its forwarded copies in the collection
C7_Witness ==
    /\ last.op = "edit" /\ last.status = 400
    /\ last.mid \in MsgIds
    /\ msgs[last.mid].edited.isEdited
    /\ clock - msgs[last.mid].edited.editedAt <= EditTimeLimit
    /\ CopiesOf(last.mid) # {}

\* C8: a delete of an existing message, when no store call fails, succeeds if
\* and only if the actor is the message's sender or has role manager or
\* admin, whatever the message's age; a refused delete (403) and a delete of a
\* message that does not exist (404) change no message document and emit
\* nothing.
C8_DeleteBySenderManagerAdmin ==
    [][ (reqs' = reqs - 1 /\ last'.op = "delete" /\ last'.fail # "find") =>
          IF last'.mid \notin MsgIds
          THEN last'.status = 404 /\ msgs' = msgs /\ last'.emits = <<>>
          ELSE LET m == msgs[last'.mid]
                   allowed == \/ m.senderId = last'.actor
                              \/ Role(last'.actor) \in {"manager", "admin"}
               IN
               /\ last'.status = 200 => allowed
               /\ (allowed /\ last'.fail = None) => last'.status = 200
               /\ ~allowed => (last'.status = 403 /\ msgs' = msgs /\ last'.emits = <<>>)
      ]_vars

\* A manager who is not the sender has deleted a message older than the edit
\* window
C8_Witness ==
    /\ last.op = "delete" /\ last.status = 200
    /\ msgs[last.mid].senderId # last.actor
    /\ Role(last.actor) = "manager"
    /\ clock - msgs[last.mid].createdAt > EditTimeLimit
    /\ msgs[last.mid].deleted.isDeleted

\* C9: after a successful delete of an original message every record whose
\* forwardedFrom is its id is tombstoned with a deleted sub-record equal to
\* the original's, also when the clock advances between the two writes.
C9_CopiesTombstoneEqualsOriginal ==
    (last.op = "delete" /\ last.status = 200 /\ msgs[last.mid].forwardedFrom = 0) =>
        \A c \in CopiesOf(last.mid) :
            /\ msgs[c].deleted.isDeleted
            /\ msgs[c].deleted = msgs[last.mid].deleted

\* C10: after a successful edit of an original message every record whose
\* forwardedFrom is its id has the text and the tags of the edited original
\* and its edited flag set, the copies made by message:send and the copies
\* made by forwardMessage alike.
C10_CopiesFollowEdit ==
    (last.op = "edit" /\ last.status = 200 /\ msgs[last.mid].forwardedFrom = 0) =>
        /\ msgs[last.mid].text = EditedText
        /\ \A c \in CopiesOf(last.mid) :
              /\ msgs[c].text = msgs[last.mid].text
              /\ msgs[c].tags = msgs[last.mid].tags
              /\ msgs[c].edited.isEdited

\* An edited original with a copy made by message:send (it lists the groups
\* the send fanned out to) and a copy made by forwardMessage (it lists none)
C10_Witness ==
    /\ last.op = "edit" /\ last.status = 200
    /\ msgs[last.mid].forwardedFrom = 0
    /\ \E c \in CopiesOf(last.mid) : msgs[c].forwardedToGroups # <<>>
    /\ \E c \in CopiesOf(last.mid) : msgs[c].forwardedToGroups = <<>>

\* C11: deleted is absorbing: once a message is tombstoned its isDeleted flag
\* stays true and no later edit or delete request, on it or cascaded from its
\* original, changes its text, tags, edited sub-record or deleted sub-record
\* for as long as the record exists.
C11_DeletedIsAbsorbing ==
    [][ \A m \in MsgIds :
           (msgs[m].deleted.isDeleted /\ m \in DOMAIN msgs') =>
               /\ msgs'[m].deleted = msgs[m].deleted
               /\ msgs'[m].text = msgs[m].text
               /\ msgs'[m].tags = msgs[m].tags
               /\ msgs'[m].edited = msgs[m].edited
      ]_vars

(***************************************************************************)
(* Retention sweep: properties                                             *)
(***************************************************************************)
\* C12: a message record is removed only by the retention sweep, and only if
\* at that moment it is tombstoned with a tombstone time more than 24 hours in
\* the past: no send, edit, delete, forward or acknowledgment removes a
\* record, a record that is not tombstoned or was tombstoned at most 24 hours
\* ago survives every sweep, and a sweep that does not fail removes every
\* record tombstoned more than 24 hours ago.
C12_OnlySweepRemovesExpired ==
    [][ /\ \A m \in MsgIds :
              m \notin DOMAIN msgs' =>
                  /\ reqs' = reqs - 1 /\ last'.op = "sweep"
                  /\ msgs[m].deleted.isDeleted
                  /\ clock - msgs[m].deleted.deletedAt > 24 * 60 * 60 * 1000
        /\ (reqs' = reqs - 1 /\ last'.op = "sweep" /\ last'.fail = None) =>
              \A m \in MsgIds :
                  (msgs[m].deleted.isDeleted
                     /\ clock - msgs[m].deleted.deletedAt > 24 * 60 * 60 * 1000)
                      => m \notin DOMAIN msgs'
      ]_vars

\* A sweep has removed the original, tombstoned 24 hours and 1 ms ago, and
\* has left its copy, tombstoned exactly 24 hours ago
C12_Witness ==
    /\ last.op = "sweep"
    /\ \E m \in 1..(nextId - 1) : m \notin MsgIds
    /\ \E c \in MsgIds : /\ msgs[c].deleted.isDeleted
                         /\ clock - msgs[c].deleted.deletedAt = Retention

(***************************************************************************)
(* message:send: persistence, acknowledgment, resolution, notifications    *)
(***************************************************************************)
Written(h) == (IF h.primary = 0 THEN {} ELSE {h.primary}) \cup Range(h.copies)

\* C13: in message:send a message:new for a record is emitted only after the
\* write of that record has succeeded, to that record's group room; when the
\* write of a record fails, nothing is emitted for it nor for the records not
\* yet written: the broadcasts are those of the records written before.
C13_BroadcastFollowsWrite ==
    \A n \in Handlers :
        LET h == sends[n] IN
        /\ \A i \in 1..Len(h.bcast) :
              /\ h.bcast[i].mid \in Written(h) \cap MsgIds
              /\ msgs[h.bcast[i].mid].senderId = h.uid
              /\ h.bcast[i].room = GroupRoom(msgs[h.bcast[i].mid].groupId)
              /\ \A j \in 1..Len(h.bcast) : h.bcast[j].mid = h.bcast[i].mid => j = i
        /\ h.persistFailed =>
              /\ h.pc = "rejected"
              /\ Len(h.bcast) = Cardinality(Written(h))
              /\ Cardinality(Written(h)) < 1 + Len(h.fwd)

\* The write of the second record of a send failed after the primary was
\* written and broadcast
C13_Witness ==
    \E n \in Handlers :
        /\ sends[n].persistFailed
        /\ sends[n].primary # 0
        /\ Len(sends[n].bcast) = 1
        /\ Len(sends[n].fwd) > Len(sends[n].copies)

\* C14: every message:send that carries an ack callback invokes it exactly
\* once: with ok = true and the primary's id when the primary was persisted,
\* whatever happens in the later steps, and with a failure indication when
\* the persistence of the primary failed, in which case nothing is broadcast
\* and no notification occurs. Stated on the handlers that have ended.
C14_AckedExactlyOnce ==
    \A n \in Handlers :
        LET h == sends[n] IN
        h.pc \in Terminal =>
            /\ Len(h.acks) = 1
            /\ h.primary # 0 => h.acks[1] = [ok |-> TRUE, id |-> h.primary]
            /\ h.primary = 0 => (~h.acks[1].ok /\ h.bcast = <<>> /\ h.nrec = <<>>)

\* C15 on the socket path: a message:send by a user who is neither a member
\* nor a manager of the target group has no side effects: no message record,
\* no message:new broadcast, no notification.
C15_NonMemberSendHasNoEffect ==
    \A n \in Handlers :
        LET h == sends[n] IN
        (h.gid \in Groups /\ ~IsMember(h.gid, h.uid)) =>
            /\ h.primary = 0
            /\ h.bcast = <<>>
            /\ h.nrec = <<>>

\* C16 on the socket path: a message:send with neither text nor file ends
\* rejected, the failure reported through the ack, with no side effects: no
\* message record, no broadcast, no notification.
C16_EmptySendRejected ==
    \A n \in Handlers :
        LET h == sends[n] IN
        (h.text = EmptyText /\ h.file = None /\ h.pc \in Terminal) =>
            /\ h.primary = 0
            /\ h.bcast = <<>>
            /\ h.nrec = <<>>
            /\ Len(h.acks) = 1
            /\ ~h.acks[1].ok

\* The forwarding set as C17 states it, targetGroups counting as supplied
\* whenever the payload carries the field
ResolvedAsSupplied(h) ==
    IF h.tg.given
    THEN Groups \cap h.tg.ids
    ELSE IF Len(h.tags) > 0 THEN {g \in Groups : Region(g) \in Range(h.tags)} ELSE {}

\* The forwarding set as C17 amended states it, targetGroups counting as
\* supplied when it names at least one id
ResolvedAsNonEmpty(h) ==
    IF h.tg.given /\ h.tg.ids # {}
    THEN Groups \cap h.tg.ids
    ELSE IF Len(h.tags) > 0 THEN {g \in Groups : Region(g) \in Range(h.tags)} ELSE {}

\* C17 as stated: when targetGroups is supplied the forwarding set is exactly
\* the existing groups it names and the tags are ignored; otherwise, with a
\* non-empty tag set, it is the groups whose region is a tag; otherwise it is
\* empty; the primary and every copy carry forwardedToGroups equal to it.
C17_ResolutionAsSupplied ==
    \A n \in Handlers :
        LET h == sends[n] IN
        h.pc # "resolve" =>
            /\ Range(h.fwd) = ResolvedAsSupplied(h)
            /\ \A m \in Written(h) : Range(msgs[m].forwardedToGroups) = ResolvedAsSupplied(h)

\* C17 amended: when targetGroups is supplied and not empty the forwarding set
\* is exactly the existing groups it names, each once, and the tags are
\* ignored; otherwise (absent or empty targetGroups), with a non-empty tag
\* set, it is the groups whose region is a tag; otherwise it is empty; the
\* primary and every copy carry forwardedToGroups equal to it.
C17_ResolutionNonEmpty ==
    \A n \in Handlers :
        LET h == sends[n] IN
        h.pc # "resolve" =>
            /\ Range(h.fwd) = ResolvedAsNonEmpty(h)
            /\ Len(h.fwd) = Cardinality(Range(h.fwd))
            /\ \A m \in Written(h) : msgs[m].forwardedToGroups = h.fwd

\* A send with both targetGroups and tags has run to its end, its copies written
C17_Witness ==
    \E n \in Handlers :
        /\ sends[n].pc = "done"
        /\ sends[n].tg.given /\ sends[n].tg.ids # {}
        /\ Len(sends[n].tags) > 0
        /\ Len(sends[n].copies) > 0
        /\ ResolvedAsNonEmpty(sends[n]) # {g \in Groups : Region(g) \in Range(sends[n].tags)}

\* The groups a completed send notifies: the primary group, when it is a
\* document, and each forwarded group
NotifiedGroups(h) == (IF h.gid \in Groups THEN {h.gid} ELSE {}) \cup Range(h.fwd)

\* C18: after a message:send whose steps all succeed a notification has been
\* recorded for, and notification:new emitted to the personal room of, every
\* member and every manager of the primary group and of each forwarded group
\* other than the sender, and none is recorded for or emitted to the sender,
\* also when the sender is a member or manager of a forwarded group.
C18_NotifiesAllButSender ==
    \A n \in Handlers :
        LET h == sends[n] IN
        h.pc = "done" =>
            /\ \A g \in NotifiedGroups(h) :
                  \A m \in (Range(GroupUsers(g)) \cup Range(GroupManagers(g))) \ {h.uid} :
                      /\ [user |-> m, groupId |-> g] \in Range(h.nrec)
                      /\ [room |-> UserRoom(m), groupId |-> g] \in Range(h.nemit)
                      /\ \E k \in 1..Len(notifs[m]) :
                            /\ notifs[m][k].groupId = g
                            /\ notifs[m][k].senderId = h.uid
            /\ \A i \in 1..Len(h.nrec) : h.nrec[i].user # h.uid
            /\ \A i \in 1..Len(h.nemit) : h.nemit[i].room # UserRoom(h.uid)
            /\ \A k \in 1..Len(notifs[h.uid]) : notifs[h.uid][k].senderId # h.uid

\* A completed send whose sender belongs to one of its forwarded groups and
\* that has notified somebody
C18_Witness ==
    \E n \in Handlers :
        /\ sends[n].pc = "done"
        /\ sends[n].nrec # <<>>
        /\ \E i \in 1..Len(sends[n].fwd) :
              sends[n].uid \in Range(GroupUsers(sends[n].fwd[i]))
                                 \cup Range(GroupManagers(sends[n].fwd[i]))

(***************************************************************************)
(* Notifications: properties                                               *)
(***************************************************************************)
\* C19: a fetch that immediately follows a record for the same user returns a
\* list whose last element is the notification just recorded, and the list is
\* served from the cache entry, not from the durable list.
C19_FetchAfterRecordFromCache ==
    [][ (last.op = "record" /\ last.ok /\ reqs' = reqs - 1 /\ last'.op = "fetch"
           /\ last'.fail = None /\ last'.actor = last.actor) =>
          /\ last'.result # <<>>
          /\ last'.result[Len(last'.result)] = last.nt
          /\ last'.source = "cache"
      ]_vars

\* C20: after any sequence of records, when the cache entry of a user is
\* evicted after a fetch, the next fetch returns the content the fetch before
\* the eviction returned, read from the durable list, and leaves the cache
\* entry present with that content.
C20_FetchAfterEvictionRepopulates ==
    [][ (last.op = "evict" /\ last.before.present /\ reqs' = reqs - 1
           /\ last'.op = "fetch" /\ last'.fail = None /\ last'.actor = last.actor) =>
          /\ last'.result = last.before.value
          /\ last'.source = "durable"
          /\ cache'[last.actor].present
          /\ cache'[last.actor].value = last'.result
      ]_vars

\* C21: when the cache read or the cache write of a record fails after the
\* durable append succeeded, the record reports success and the notification
\* is in the durable list.
C21_CacheFailureStillSuccess ==
    (last.op = "record" /\ last.fail \in {"get", "setex"}) =>
        /\ last.ok
        /\ last.nt \in Range(notifs[last.actor])

\* C22: every list written to the cache of a user holds at most CacheLimit
\* entries, also the one a fetch writes after a miss from a durable list
\* longer than that.
C22_CachedAtMostLimit ==
    (last.op \in {"record", "fetch"} /\ last.written.present) =>
        Len(last.written.value) <= CacheLimit

Established(s) == socks[s].st = "ready" /\ socks[s].open

\* C24: every step leaves each established connection in the personal room of
\* its user, in the room of the user's group if there is one, and in the admin
\* room exactly when the user's role is admin; a join:admin event changes no
\* membership, whether a non-admin sends it or an admin repeats it.
C24_AdminRoomIffAdmin ==
    [][ /\ \A s \in SockIds :
              (socks'[s].st = "ready" /\ socks'[s].open) =>
                  /\ <<s, UserRoom(socks'[s].uid)>> \in rooms'
                  /\ (<<s, AdminRoom>> \in rooms') <=> (Role(socks'[s].uid) = "admin")
                  /\ (socks[s].st = "update" /\ GroupOf(socks'[s].uid) # None) =>
                         <<s, GroupRoom(GroupOf(socks'[s].uid))>> \in rooms'
        /\ (budget' = budget - 1 /\ last'.op = "join:admin") => rooms' = rooms
      ]_vars

C24_Witness ==
    /\ budget = 0
    /\ last.op = "join:admin"
    /\ Established(last.sock)
    /\ Role(last.actor) # "admin"
    /\ <<last.sock, AdminRoom>> \notin rooms
    /\ \E s \in SockIds \ {last.sock} :
          /\ Established(s)
          /\ Role(socks[s].uid) = "admin"
          /\ <<s, AdminRoom>> \in rooms
          /\ \E i \in DOMAIN trace[s] : trace[s][i] = JoinEff(AdminRoom) /\ i < Len(trace[s])
          /\ \E g \in GroupIds : <<s, GroupRoom(g)>> \in rooms

Recorded(u) == {i \in DOMAIN notifs[u] : notifs[u][i].type \in {"user_joined", "user_left"}}

\* C28: user:joined and user:left go to the room of the named group and reach
\* no acting socket; a finished group:join or group:leave handler has recorded
\* one notification for each entry of the group's users and managers other
\* than the acting user, none when the group does not exist, and nothing but
\* these events was emitted (no notification:new).
C28_JoinLeaveNotifyOthers ==
    /\ \A s \in SockIds : \A i \in DOMAIN trace[s] :
          LET e == trace[s][i] IN
          IsEmit(e) =>
              /\ e.ev \in {"user:online", "user:offline", "user:status:changed",
                           "user:joined", "user:left"}
              /\ e.ev \in {"user:joined", "user:left"} =>
                    /\ s \notin e.to
                    /\ e.dest[1] = "to" /\ e.dest[2][1] = "group"
    /\ \A n \in Handlers :
          LET h == sends[n] IN
          /\ h.nemit = <<>>
          /\ h.pc = "done" =>
                /\ h.gid \notin Groups => h.nrec = <<>>
                /\ h.gid \in Groups =>
                      /\ Range(h.nrec) = (Range(GroupUsers(h.gid)) \cup Range(GroupManagers(h.gid)))
                                             \ {h.uid}
                      /\ Len(h.nrec) = Len(SelectSeq(GroupUsers(h.gid) \o GroupManagers(h.gid),
                                                     LAMBDA m : m # h.uid))
    /\ \A u \in UserIds :
          Cardinality(Recorded(u)) =
              Cardinality({<<n, i>> \in Handlers \X (1..3) :
                              i <= Len(sends[n].nrec) /\ sends[n].nrec[i] = u})

C28_Witness ==
    \E n \in Handlers :
        LET h == sends[n] IN
        /\ h.pc = "done"
        /\ h.ev = "group:join"
        /\ h.gid = "g2"
        /\ h.uid = "u1"
        /\ h.to # {}
        /\ h.nrec = <<"u3">>
        /\ Len(notifs["u3"]) = 1
        /\ notifs["u3"][1].type = "user_joined"
        /\ notifs["u1"] = <<>>

(***************************************************************************)
(* Edits and deletes: frame and broadcasts                                 *)
(***************************************************************************)
\* C25: a successful edit of a record that has forwardedFrom set changes that
\* record only: every other record, the original and the other copies of the
\* original among them, is the same before and after.
C25_CopyEditChangesOnlyCopy ==
    [][ (reqs' = reqs - 1 /\ last'.op = "edit" /\ last'.status = 200
           /\ msgs[last'.mid].forwardedFrom # 0) =>
          /\ DOMAIN msgs' = DOMAIN msgs
          /\ \A i \in MsgIds \ {last'.mid} : msgs'[i] = msgs[i]
          /\ msgs'[last'.mid].edited.isEdited
          /\ msgs'[last'.mid] = EditedDoc(msgs[last'.mid], msgs'[last'.mid].text, clock)
      ]_vars

C25_Witness ==
    /\ last.op = "edit"
    /\ last.status = 200
    /\ last.mid \in MsgIds
    /\ msgs[last.mid].forwardedFrom \in MsgIds
    /\ msgs[last.mid].text = EditedText
    /\ msgs[msgs[last.mid].forwardedFrom].text # EditedText
    /\ ~msgs[msgs[last.mid].forwardedFrom].edited.isEdited

\* C26: a successful edit answers with exactly one message:edited and a
\* successful delete with exactly one message:deleted, carrying the message id
\* and the actor, to the group room of the targeted record, whatever copies
\* the cascade reached; a request that does not succeed emits nothing.
C26_OneBroadcastToTargetRoom ==
    [][ (reqs' = reqs - 1 /\ last'.op \in {"edit", "delete"}) =>
          IF last'.status = 200
          THEN last'.emits =
                  <<HttpEmit(IF last'.op = "edit" THEN "message:edited" ELSE "message:deleted",
                             GroupRoom(msgs[last'.mid].groupId), last'.mid, last'.actor)>>
          ELSE last'.emits = <<>>
      ]_vars

C26_Witness ==
    /\ last.op = "delete"
    /\ last.status = 200
    /\ Len(last.emits) = 1
    /\ last.mid \in MsgIds
    /\ \E c \in CopiesOf(last.mid) :
          /\ msgs[c].deleted.isDeleted
          /\ msgs[c].groupId # msgs[last.mid].groupId

(***************************************************************************)
(* Acknowledgments: set semantics                                          *)
(***************************************************************************)
NoDuplicates(seq) == \A i, j \in DOMAIN seq : seq[i] = seq[j] => i = j

\* C27: after every step of any interleaving of markAsDelivered and
\* markAsSeen requests no user id occurs twice in a message's deliveredTo or
\* in its seenBy, and the update of a request by a user already present in
\* the list of a message leaves that message as it was.
C27_AcksAreSets ==
    [][ /\ \A i \in DOMAIN msgs' :
              NoDuplicates(msgs'[i].deliveredTo) /\ NoDuplicates(msgs'[i].seenBy)
        /\ \A n \in Handlers :
              (sends[n].todo # <<>> /\ sends'[n].todo = Tail(sends[n].todo)) =>
                  LET i == Head(sends[n].todo)
                      present == IF sends[n].op = "delivered"
                                 THEN Range(msgs[i].deliveredTo) ELSE Range(msgs[i].seenBy)
                  IN
                  IF sends[n].actor \in present
                  THEN msgs' = msgs
                  ELSE /\ sends[n].actor \in (IF sends[n].op = "delivered"
                                              THEN Range(msgs'[i].deliveredTo)
                                              ELSE Range(msgs'[i].seenBy))
                       /\ \A k \in DOMAIN msgs \ {i} : msgs'[k] = msgs[k]
      ]_vars

C27_Witness ==
    \E n1, n2 \in Handlers :
        /\ n1 < n2
        /\ sends[n1].op = "delivered" /\ sends[n2].op = "delivered"
        /\ sends[n1].actor = sends[n2].actor
        /\ sends[n1].status = 200 /\ sends[n2].status = 200
        /\ 1 \in sends[n1].ids /\ 2 \in sends[n1].ids /\ 2 \in sends[n2].ids
        /\ 2 \in MsgIds
        /\ msgs[2].deliveredTo = <<sends[n1].actor>>
        /\ sends[n1].actor \in Range(msgs[2].deliveredTo)
        /\ msgs[2].status = "delivered"

(***************************************************************************)
(* The retention sweep: failures                                           *)
(***************************************************************************)
\* C29: a failing run of the sweep removes nothing and the timer goes on;
\* whenever successful runs keep coming, every record whose tombstone is
\* older than the retention is eventually gone from the collection (or has
\* been given a new tombstone by another delete).
C29_FailedSweepAbsorbed ==
    /\ [][ (last'.op = "sweep" /\ last'.fail # None /\ last' # last) =>
              (msgs' = msgs /\ ENABLED SweepTimer(FALSE)) ]_vars
    /\ ([]<><<SweepTimer(FALSE)>>_vars) =>
          \A i \in 1..MaxMsgs :
              [] ((i \in MsgIds /\ Expired(msgs[i], clock)) =>
                     <> (i \notin MsgIds \/ ~Expired(msgs[i], clock)))

C29_Witness ==
    /\ last.op = "sweep"
    /\ last.fail = None
    /\ last.failed
    /\ last.purged > 0
    /\ \E i \in 1..(nextId - 1) : i \notin MsgIds

(***************************************************************************)
(* Explicit forward                                                        *)
(***************************************************************************)
\* C30: a forward whose store calls succeed, of an existing message, leaves
\* the records there were as they are and creates exactly one record for each
\* destination id that names a group, with forwardedFrom the id given, the
\* original's text behind the forwarded prefix, and the original's file and
\* tags; each created record is emitted once as message:new to the room of
\* its group and nothing else is emitted; for an id that names no message the
\* answer is 404, nothing is created and nothing emitted.
C30_ForwardCreatesOnePerGroup ==
    [][ (reqs' = reqs - 1 /\ last'.op = "forward" /\ last'.fail = None) =>
          IF last'.mid \notin MsgIds
          THEN last'.status = 404 /\ msgs' = msgs /\ last'.emits = <<>>
          ELSE LET new == DOMAIN msgs' \ DOMAIN msgs
                   orig == msgs[last'.mid]
                   dests == Groups \cap last'.groupIds
               IN
               /\ last'.status = 200
               /\ \A i \in DOMAIN msgs : msgs'[i] = msgs[i]
               /\ \A g \in dests : Cardinality({i \in new : msgs'[i].groupId = g}) = 1
               /\ \A i \in new :
                     /\ msgs'[i].groupId \in dests
                     /\ msgs'[i].forwardedFrom = last'.mid
                     /\ msgs'[i].text = ForwardedPrefix \o orig.text
                     /\ msgs'[i].file = orig.file
                     /\ msgs'[i].tags = orig.tags
                     /\ Cardinality({k \in DOMAIN last'.emits :
                                        last'.emits[k].mid = i}) = 1
               /\ \A k \in DOMAIN last'.emits :
                     /\ last'.emits[k].ev = "message:new"
                     /\ last'.emits[k].mid \in new
                     /\ last'.emits[k].room = GroupRoom(msgs'[last'.emits[k].mid].groupId)
      ]_vars

C30_Witness ==
    /\ last.op = "forward"
    /\ last.status = 200
    /\ NoSuchGroup \in last.groupIds
    /\ Len(last.emits) = 2
    /\ last.mid \in MsgIds
    /\ msgs[last.mid].tags # <<>>
    /\ Cardinality(CopiesOf(last.mid)) >= 2
    /\ \A c \in CopiesOf(last.mid) : msgs[c].tags = msgs[last.mid].tags

(***************************************************************************)
(* message:send: one record and one broadcast per group                    *)
(***************************************************************************)
\* C34: no message:send handler has the group of its primary record in its
\* forwarding set, names a group twice there, or has emitted message:new
\* twice to one room.
C34_OneRecordPerGroup ==
    \A n \in Handlers :
        LET h == sends[n] IN
        /\ h.gid \notin Range(h.fwd)
        /\ \A i, j \in DOMAIN h.fwd : h.fwd[i] = h.fwd[j] => i = j
        /\ \A i, j \in DOMAIN h.bcast : h.bcast[i].room = h.bcast[j].room => i = j

(***************************************************************************)
(* Presence and live connections                                           *)
(***************************************************************************)
Quiescent == \A s \in SockIds : socks[s].st \notin {"lookup", "update"} /\ socks[s].disc # "pending"

\* C32: once no connection or disconnect handler is pending, the stored
\* online flag of every user is true exactly when one of the user's
\* authenticated connections is still open.
C32_OnlineIffLiveConnection ==
    Quiescent =>
        \A u \in UserIds :
            users[u].isOnline <=> (\E s \in SockIds : Established(s) /\ socks[s].uid = u)

(***************************************************************************)
(* Edit and delete in flight together                                      *)
(***************************************************************************)
Authorized(h) ==
    /\ h.mid \in MsgIds
    /\ IF h.op = "edit" THEN msgs[h.mid].senderId = h.actor ELSE CanDelete(msgs[h.mid], h.actor)

EditedAndTombstoned(m, text) ==
    /\ m.deleted.isDeleted
    /\ m.text = text
    /\ m.tags = extractTags(text)
    /\ m.edited.isEdited

\* C31: every edit and every delete by an authorized actor is answered 200,
\* whatever ran between its steps; once an edit and a delete of the same
\* message have both been answered, the message is tombstoned and carries the
\* edited text, tags and edited flag, and so does each of its copies.
C31_EditDeleteRaceBenign ==
    /\ \A n \in Handlers :
          sends[n].pc = "done" => (sends[n].status = 200 <=> Authorized(sends[n]))
    /\ \A e, d \in Handlers :
          (/\ sends[e].op = "edit" /\ sends[d].op = "delete"
           /\ sends[e].mid = sends[d].mid
           /\ sends[e].pc = "done" /\ sends[d].pc = "done"
           /\ sends[e].status = 200 /\ sends[d].status = 200) =>
              /\ EditedAndTombstoned(msgs[sends[e].mid], sends[e].text)
              /\ IsOriginal(msgs[sends[e].mid]) =>
                    \A c \in CopiesOf(sends[e].mid) : EditedAndTombstoned(msgs[c], sends[e].text)

C31_Witness ==
    \E e, d \in Handlers :
        /\ sends[e].op = "edit" /\ sends[d].op = "delete"
        /\ sends[e].mid = sends[d].mid
        /\ sends[e].pc = "done" /\ sends[d].pc = "done"
        /\ sends[e].status = 200 /\ sends[d].status = 200
        /\ sends[e].overlap
        /\ sends[e].actor # sends[d].actor
        /\ CopiesOf(sends[e].mid) # {}
        /\ \A c \in CopiesOf(sends[e].mid) : EditedAndTombstoned(msgs[c], sends[e].text)

(***************************************************************************)
(* Cache and durable list under interleaved calls                          *)
(***************************************************************************)
AllCallsDone == Handlers # {} /\ \A n \in Handlers : sends[n].pc = "done"

\* C33: once all calls for a user have completed, the list the cache was last
\* given for the user holds nothing that the durable list does not hold (no
\* cleared notification reappears) and is the durable list's most recent
\* entries, at most CacheLimit of them, when the calls were records only.
C33_CacheFollowsDurable ==
    (AllCallsDone /\ last.op = "setex") =>
        /\ Range(last.written.value) \subseteq Range(JsonRoundTrip(notifs[last.actor]))
        /\ (\A n \in Handlers : sends[n].op = "record") =>
               last.written.value = JsonRoundTrip(Trim(notifs[last.actor]))

====
